---- MODULE Spec2Model ----
(***************************************************************************)
(* A model of graffiti-mongoose's Filter/Sort Compiler (getFilterObject,   *)
(* getSortObject, parseValue), of its Hook Composition (addHooks) and of   *)
(* its Type Synthesizer (createTypeContext: getType, getTypes,             *)
(* getFieldArguments, createInputObject).                                  *)
(*                                                                         *)
(* JavaScript values are tagged records ([t |-> "num", n |-> 5], ...),     *)
(* JavaScript strings are sequences of one-character strings, so that      *)
(* concatenation, parseInt and lexical comparison are computed, and a      *)
(* JavaScript object is the sequence of its [k, v] entries in insertion    *)
(* order.  A call that may throw returns [ok |-> TRUE, val |-> v] or       *)
(* [ok |-> FALSE, err |-> e].                                              *)
(***************************************************************************)
EXTENDS Integers, Sequences, FiniteSets, TLC

VARIABLES
  build,       \* what the build makes of two constructs the language leaves to it
  resolveInfo, \* the selection context handed to the compiler (GraphQLResolveInfo)
  filterOut,   \* what getFilterObject(resolveInfo) gave its caller
  sortOut,     \* what getSortObject(resolveInfo) gave its caller
  hooks,       \* a resolve function made by addHooks, and the arguments of its call
  pc,          \* where that call of resolve stands
  chain,       \* the Middleware chain being composed: next hook, running, last result
  result,      \* what the wrapped resolver returned
  returned,    \* what resolve returned to its caller
  log,         \* the hook and resolver events of the call, in order
  models,      \* the graffiti models the types are synthesized from
  heap,        \* the GraphQL objects built so far: object types, field maps, input types
  contexts,    \* the type contexts created by createTypeContext
  typeCache,   \* the process-wide type cache (a NodeCache)
  now,         \* the time, in units of which a cache entry lives StdTTL
  typeOut,     \* what the calls of getType and getTypes gave, in order
  gmodels,     \* the graffiti models getModel has built
  schemas,     \* the schemas getSchema has built
  modelCache,  \* the process-wide model cache (a NodeCache)
  schemaCache, \* the process-wide schema cache (a NodeCache)
  cacheOut     \* what the calls made through the caches gave, in order

(***************************************************************************)
(* JavaScript values                                                       *)
(***************************************************************************)
Undefined == [t |-> "undefined"]
Null == [t |-> "null"]
NaN == [t |-> "NaN"]
Infinity == [t |-> "Infinity"]
Num(n) == [t |-> "num", n |-> n]
\* m / 10^d with d > 0 and m not a multiple of 10: a number with a fraction
Frac(m, d) == [t |-> "frac", m |-> m, d |-> d]
Str(s) == [t |-> "str", s |-> s]
Bool(b) == [t |-> "bool", b |-> b]
Arr(items) == [t |-> "arr", items |-> items]
Obj(kv) == [t |-> "obj", kv |-> kv]

Ok(v) == [ok |-> TRUE, val |-> v]
Err(e) == [ok |-> FALSE, err |-> e]

\* an AST node or the info object: a plain object, which carries no tag
IsPlain(x) == "t" \notin DOMAIN x

\* Array.isArray(x)
IsArray(x) == ~IsPlain(x) /\ x.t = "arr"

\* ToBoolean: what `!x`, `x || y` and `c ? a : b` test
Truthy(x) ==
  IF IsPlain(x) THEN TRUE
  ELSE CASE x.t \in {"undefined", "null", "NaN"} -> FALSE
         [] x.t = "num" -> x.n # 0
         [] x.t = "str" -> Len(x.s) > 0
         [] x.t = "bool" -> x.b
         [] OTHER -> TRUE

\* x.p, undefined when x has no property p (a number, an object without it)
Prop(x, p) == IF p \in DOMAIN x THEN x[p] ELSE Undefined

(***************************************************************************)
(* Strings                                                                 *)
(***************************************************************************)
Digits == <<"0", "1", "2", "3", "4", "5", "6", "7", "8", "9">>

IsDigit(c) == \E i \in 1..10 : Digits[i] = c

DigitVal(c) == (CHOOSE i \in 1..10 : Digits[i] = c) - 1

\* the UTF-16 code unit of the characters the model uses
Code(c) ==
  CASE c = "$" -> 36
    [] c = "-" -> 45
    [] c = "." -> 46
    [] IsDigit(c) -> 48 + DigitVal(c)
    [] c = "F" -> 70
    [] c = "a" -> 97
    [] c = "b" -> 98
    [] c = "c" -> 99
    [] c = "d" -> 100
    [] c = "e" -> 101
    [] c = "s" -> 115
    [] c = "x" -> 120
    [] OTHER -> 122

RECURSIVE StrLess(_, _)
\* s < t on strings: by code unit, a proper prefix first
StrLess(s, t) ==
  IF t = <<>> THEN FALSE
  ELSE IF s = <<>> THEN TRUE
  ELSE IF Code(Head(s)) # Code(Head(t)) THEN Code(Head(s)) < Code(Head(t))
  ELSE StrLess(Tail(s), Tail(t))

RECURSIVE DigitRun(_)
\* the longest prefix of s made of digits
DigitRun(s) ==
  IF s = <<>> \/ ~IsDigit(Head(s)) THEN <<>> ELSE <<Head(s)>> \o DigitRun(Tail(s))

RECURSIVE DigitsValue(_, _)
DigitsValue(s, acc) ==
  IF s = <<>> THEN acc ELSE DigitsValue(Tail(s), 10 * acc + DigitVal(Head(s)))

\* parseInt(s, 10) on the characters of a string
ParseIntChars(s) ==
  LET neg == s # <<>> /\ Head(s) = "-"
      body == IF neg THEN Tail(s) ELSE s
      run == DigitRun(body)
  IN IF run = <<>> THEN NaN
     ELSE Num(IF neg THEN 0 - DigitsValue(run, 0) ELSE DigitsValue(run, 0))

RECURSIVE DecimalChars(_)
DecimalChars(n) ==
  IF n < 10 THEN <<Digits[n + 1]>> ELSE DecimalChars(n \div 10) \o <<Digits[(n % 10) + 1]>>

\* String(x) for the values parseInt and a template literal are given
ToStringChars(x) ==
  CASE x.t = "str" -> x.s
    [] x.t = "num" -> IF x.n < 0 THEN <<"-">> \o DecimalChars(0 - x.n) ELSE DecimalChars(x.n)
    [] x.t = "undefined" -> <<"u", "n", "d", "e", "f", "i", "n", "e", "d">>
    [] x.t = "null" -> <<"n", "u", "l", "l">>
    [] x.t = "bool" -> IF x.b THEN <<"t", "r", "u", "e">> ELSE <<"f", "a", "l", "s", "e">>
    [] x.t = "NaN" -> <<"N", "a", "N">>
    [] OTHER -> <<>>

\* parseInt(x, 10)
ParseInt(x) == ParseIntChars(ToStringChars(x))

RECURSIVE Pow10(_)
Pow10(d) == IF d = 0 THEN 1 ELSE 10 * Pow10(d - 1)

RECURSIVE StripZeros(_)
StripZeros(s) ==
  IF s # <<>> /\ s[Len(s)] = "0" THEN StripZeros(SubSeq(s, 1, Len(s) - 1)) ELSE s

\* parseFloat(s) on the characters of a decimal literal
ParseFloatChars(s) ==
  LET neg == s # <<>> /\ Head(s) = "-"
      body == IF neg THEN Tail(s) ELSE s
      int == DigitRun(body)
      rest == SubSeq(body, Len(int) + 1, Len(body))
      frac == IF rest # <<>> /\ Head(rest) = "." THEN StripZeros(DigitRun(Tail(rest))) ELSE <<>>
      sign == IF neg THEN 0 - 1 ELSE 1
  IN IF int = <<>> /\ frac = <<>> THEN NaN
     ELSE IF frac = <<>> THEN Num(sign * DigitsValue(int, 0))
     ELSE Frac(sign * (DigitsValue(int, 0) * Pow10(Len(frac)) + DigitsValue(frac, 0)), Len(frac))

(***************************************************************************)
(* Objects: entries in insertion order                                     *)
(***************************************************************************)
\* const x = v, and then F(x): v is computed once, whatever F does with it
Bind(v, F(_)) == CHOOSE out \in {F(x) : x \in {v}} : TRUE

HasKey(kv, k) == \E i \in 1..Len(kv) : kv[i].k = k

\* obj[k]
ObjGet(o, k) ==
  IF IsPlain(o) \/ o.t # "obj" \/ ~HasKey(o.kv, k) THEN Undefined
  ELSE o.kv[CHOOSE i \in 1..Len(o.kv) : o.kv[i].k = k].v

\* obj[k] = v: an existing key keeps its place, a new key goes last
ObjSet(kv, k, v) ==
  IF HasKey(kv, k)
  THEN [i \in 1..Len(kv) |-> IF kv[i].k = k THEN [k |-> k, v |-> v] ELSE kv[i]]
  ELSE Append(kv, [k |-> k, v |-> v])

RECURSIVE ObjAssign(_, _)
\* { ...target, ...source } on the entries
ObjAssign(target, source) ==
  IF source = <<>> THEN target
  ELSE Bind(ObjSet(target, Head(source).k, Head(source).v),
            LAMBDA merged : ObjAssign(merged, Tail(source)))

(***************************************************************************)
(* parseValue                                                              *)
(***************************************************************************)
\* x.kind as the switch reads it
KindOf(x) == IF "kind" \in DOMAIN x THEN x.kind ELSE "undefined"

\* values.map(parseValue): Array.prototype.map calls back with (element, index,
\* array), so the element arrives as `info` and the index as the node
MapCallArgs(info, values, i) == <<values[i], Num(i - 1)>>

RECURSIVE parseValue(_, _)
parseValue(info, x) ==
  LET kind == KindOf(x)
  IN CASE kind = "Variable" -> ObjGet(Prop(info, "variableValues"), x.name.value)
       [] kind = "IntValue" -> ParseInt(x.value)
       [] kind = "FloatValue" -> ParseFloatChars(ToStringChars(x.value))
       [] kind = "StringValue" -> x.value
       [] kind = "BooleanValue" -> Bool(Truthy(x.value))
       [] kind = "NullValue" -> Null
       [] kind = "ListValue" ->
            Arr([i \in 1..Len(x.values) |->
                  parseValue(MapCallArgs(info, x.values, i)[1], MapCallArgs(info, x.values, i)[2])])
       [] OTHER -> Prop(x, "value")

(***************************************************************************)
(* getFilterObject                                                         *)
(***************************************************************************)
S_eq == <<"e", "q">>
S_gt == <<"g", "t">>
S_gte == <<"g", "t", "e">>
S_lt == <<"l", "t">>
S_lte == <<"l", "t", "e">>
S_ne == <<"n", "e">>
S_in == <<"i", "n">>
S_nin == <<"n", "i", "n">>
S_op == <<"o", "p">>
S_and == <<"a", "n", "d">>
S_or == <<"o", "r">>
S_sort == <<"s", "o", "r", "t">>
S_sortOrder == <<"s", "o", "r", "t", "O", "r", "d", "e", "r">>

names == <<S_eq, S_gt, S_gte, S_lt, S_lte, S_ne, S_in, S_nin>>

\* names.indexOf(n) > -1
IsComparison(n) == \E i \in 1..Len(names) : names[i] = n

\* args.find((it) => it.name.value === n), undefined when there is none
FindArg(args, n) ==
  IF \E i \in 1..Len(args) : args[i].name.value = n
  THEN args[CHOOSE i \in 1..Len(args) :
              args[i].name.value = n /\ \A j \in 1..(i - 1) : args[j].name.value # n]
  ELSE Undefined

\* `$${x}`
Dollar(x) == <<"$">> \o ToStringChars(x)

\* fieldNodes = fieldNodes || info.fieldNodes; an array, or the one node wrapped
NodesOf(info, fieldNodes) ==
  LET fn == IF Truthy(fieldNodes) THEN fieldNodes ELSE Prop(info, "fieldNodes")
  IN IF IsArray(fn) THEN fn.items ELSE IF Truthy(fn) THEN <<fn>> ELSE <<>>

RECURSIVE SelectionsOf(_)
\* the selections of every node that has a selection set, concatenated
SelectionsOf(nodes) ==
  IF nodes = <<>> THEN <<>>
  ELSE (IF Truthy(Prop(Head(nodes), "selectionSet"))
        THEN Head(nodes).selectionSet.selections ELSE <<>>) \o SelectionsOf(Tail(nodes))

\* (parentName ? `${parentName}.` : '') + name.value
PrefixOf(parentName, name) ==
  (IF Truthy(parentName) THEN ToStringChars(parentName) \o <<".">> ELSE <<>>) \o name.value

RECURSIVE FilterClauses(_, _)
\* args.filter(comparison).map(it => ({ [`$${it.name.value}`]: parseValue(info, it.value) }))
FilterClauses(info, args) ==
  IF args = <<>> THEN <<>>
  ELSE (IF IsComparison(Head(args).name.value)
        THEN <<Obj(<<[k |-> Dollar(Str(Head(args).name.value)),
                     v |-> parseValue(info, Head(args).value)]>>)>>
        ELSE <<>>) \o FilterClauses(info, Tail(args))

\* (args.find(op) || { value: { value: 'and' } }).value.value
FilterOp(args) ==
  LET found == FindArg(args, S_op)
  IN IF Truthy(found) THEN Prop(found.value, "value") ELSE Str(S_and)

\* the field's own entry: nothing, the single clause, or the clauses under `$${op}`
FilterConfig(prefix, filters, op) ==
  IF Len(filters) > 0
  THEN <<[k |-> prefix,
          v |-> IF Len(filters) > 1 THEN Obj(<<[k |-> Dollar(op), v |-> Arr(filters)]>>)
                ELSE filters[1]]>>
  ELSE <<>>

\* UnsupportedSelection as it would be if the switch let other kinds through
UnsupportedSelection_Skipped(list) == Ok(list)

\* default: throw new Error('Unsuported query selection')
UnsupportedSelection(list) == Err("Unsuported query selection")

RECURSIVE getFilterObject(_, _, _)
RECURSIVE FilterReduce(_, _, _, _)
\* one call of the reduce callback on selection `ast` with accumulator `list`
FilterStep(info, parentName, list, ast) ==
  IF ~Truthy(Prop(ast, "name")) THEN Err("TypeError")
  ELSE LET prefix == PrefixOf(parentName, ast.name)
           kind == KindOf(ast)
       IN CASE kind = "Field" ->
                 LET filters == FilterClauses(info, ast.arguments)
                     config == FilterConfig(prefix, filters, FilterOp(ast.arguments))
                     sub == getFilterObject(info, ast, Str(prefix))
                 IN IF sub.ok THEN Ok(Obj(ObjAssign(ObjAssign(list.kv, sub.val.kv), config)))
                    ELSE sub
            [] kind = "InlineFragment" ->
                 LET sub == getFilterObject(info, ast, Str(prefix))
                 IN IF sub.ok THEN Ok(Obj(ObjAssign(list.kv, sub.val.kv))) ELSE sub
            [] kind = "FragmentSpread" ->
                 LET sub == getFilterObject(info, ObjGet(info.fragments, ast.name.value), Str(prefix))
                 IN IF sub.ok THEN Ok(Obj(ObjAssign(list.kv, sub.val.kv))) ELSE sub
            [] OTHER -> UnsupportedSelection(list)

\* selections.reduce(callback, {}): a throw ends the reduce
FilterReduce(info, parentName, acc, sels) ==
  IF ~acc.ok \/ sels = <<>> THEN acc
  ELSE FilterReduce(info, parentName, FilterStep(info, parentName, acc.val, Head(sels)), Tail(sels))

\* getFilterObject as it would be without the `if (!info)` guard: reading
\* info.fieldNodes of an absent context throws
getFilterObject_NoGuard(info, fieldNodes, parentName) ==
  IF ~Truthy(info) THEN Err("TypeError")
  ELSE FilterReduce(info, parentName, Ok(Obj(<<>>)), SelectionsOf(NodesOf(info, fieldNodes)))

getFilterObject(info, fieldNodes, parentName) ==
  IF ~Truthy(info) THEN Ok(Obj(<<>>))
  ELSE FilterReduce(info, parentName, Ok(Obj(<<>>)), SelectionsOf(NodesOf(info, fieldNodes)))

(***************************************************************************)
(* getSortObject                                                           *)
(***************************************************************************)
\* [...x] in an array literal.  x is not always an array here: a plain object is
\* not iterable, and the build decides what spreading it does.  Babel 6's
\* _toConsumableArray falls back to Array.from(x), which is [] for an object
\* without length; native spread and Babel 7 throw a TypeError.
ArraySpread(x) ==
  IF IsArray(x) THEN Ok(x.items)
  ELSE IF build.spread = "arrayFrom" THEN Ok(<<>>)
  ELSE Err("TypeError")

\* { ...x }: an array spreads as its index keys, an object as its entries
ObjectSpread(x) ==
  IF IsArray(x) THEN [i \in 1..Len(x.items) |-> [k |-> DecimalChars(i - 1), v |-> x.items[i]]]
  ELSE x.kv

\* parseInt(parseValue(info, sortArg.value), 10) || 1
SortDirection(info, sortArg) ==
  LET parsed == ParseInt(parseValue(info, sortArg.value))
  IN IF Truthy(parsed) THEN parsed ELSE Num(1)

\* orderArg ? parseInt(orderArg.value.value, 10) : Infinity
SortPriority(orderArg) ==
  IF Truthy(orderArg) THEN ParseInt(Prop(orderArg.value, "value")) ELSE Infinity

\* a > b as JavaScript compares numbers with numbers and strings with strings
JsGreater(a, b) ==
  CASE a.t = "num" /\ b.t = "num" -> a.n > b.n
    [] a.t = "Infinity" /\ b.t = "num" -> TRUE
    [] a.t = "str" /\ b.t = "str" -> StrLess(b.s, a.s)
    [] OTHER -> FALSE

\* lodash compareAscending: undefined after every value, NaN after everything,
\* and NaN against NaN is 1 either way
CompareAscending(value, other) ==
  IF value = other /\ value # NaN THEN 0
  ELSE IF JsGreater(value, other) \/ (value = Undefined /\ other # NaN) \/ value = NaN THEN 1
  ELSE IF JsGreater(other, value) \/ (other = Undefined /\ value # NaN) \/ other = NaN
       THEN 0 - 1
  ELSE 0

\* lodash compareMultiple on the criteria order, name, value, all ascending;
\* 0 leaves the pair to the index
CompareMultiple(x, y) ==
  LET c1 == CompareAscending(Prop(x, "order"), Prop(y, "order"))
      c2 == CompareAscending(Prop(x, "name"), Prop(y, "name"))
      c3 == CompareAscending(Prop(x, "value"), Prop(y, "value"))
  IN IF c1 # 0 THEN c1 ELSE IF c2 # 0 THEN c2 ELSE c3

\* whether items[i] comes before items[j] in the sorted array.  A pair the
\* comparer orders consistently goes by the comparer, a tie by index (lodash
\* baseSortBy); a pair it orders both ways (two NaN priorities) is left to the
\* engine's sort, which keeps or swaps it.
SortsBefore(items, i, j) ==
  LET cij == CompareMultiple(items[i], items[j])
      cji == CompareMultiple(items[j], items[i])
  IN IF cij > 0 /\ cji > 0 THEN (IF build.nanTie = "keep" THEN i < j ELSE j < i)
     ELSE IF cij # 0 THEN cij < 0
     ELSE i < j

\* orderBy(collection, ['order', 'name', 'value'], ['asc']) on the values of the
\* collection
orderBy(items) ==
  LET n == Len(items)
      pos(i) == 1 + Cardinality({j \in 1..n : j # i /\ SortsBefore(items, j, i)})
  IN [p \in 1..n |-> items[CHOOSE i \in 1..n : pos(i) = p]]

\* the values lodash iterates: the elements of an array, the values of an object
ValuesOf(x) == IF IsArray(x) THEN x.items ELSE [i \in 1..Len(x.kv) |-> x.kv[i].v]

RECURSIVE SortFold(_, _)
\* .reduce((sorts, it) => (it.name ? { ...sorts, [it.name]: it.value } : sorts), {})
SortFold(sorts, items) ==
  IF items = <<>> THEN sorts
  ELSE SortFold(IF Truthy(Prop(Head(items), "name"))
                THEN ObjSet(sorts, Head(items).name.s, Head(items).value)
                ELSE sorts, Tail(items))

\* the entry of a field that carries `sort`
SortEntry(info, prefix, sortArg, orderArg) ==
  [name |-> Str(prefix), value |-> SortDirection(info, sortArg), order |-> SortPriority(orderArg)]

\* [...list, ...sub, ...own]: the elements in order, or the first spread that throws
SpreadConcat(list, sub, own) ==
  LET a == ArraySpread(list)
      b == ArraySpread(sub)
  IN IF ~a.ok THEN a ELSE IF ~b.ok THEN b ELSE Ok(Arr(a.val \o b.val \o own))

\* the accumulator a field without `sort` leaves: { ...list, ...getSortObject(info, ast) }
SortlessMerge(list, sub) == Obj(ObjAssign(ObjectSpread(list), sub.kv))

RECURSIVE getSortObject(_, _, _)
RECURSIVE SortReduce(_, _, _, _)
\* one call of the reduce callback on selection `ast` with accumulator `list`
SortStep(info, parentName, list, ast) ==
  IF ~Truthy(Prop(ast, "name")) THEN Err("TypeError")
  ELSE LET prefix == PrefixOf(parentName, ast.name)
           kind == KindOf(ast)
       IN CASE kind = "Field" ->
                 LET sortArg == FindArg(ast.arguments, S_sort)
                     orderArg == FindArg(ast.arguments, S_sortOrder)
                 IN IF ~Truthy(sortArg)
                    THEN LET sub == getSortObject(info, ast, Undefined)
                         IN IF sub.ok THEN Ok(SortlessMerge(list, sub.val)) ELSE sub
                    ELSE LET first == ArraySpread(list)
                             sub == getSortObject(info, ast, Str(prefix))
                         IN IF ~first.ok THEN first
                            ELSE IF ~sub.ok THEN sub
                            ELSE SpreadConcat(list, sub.val,
                                              <<SortEntry(info, prefix, sortArg, orderArg)>>)
            [] kind = "InlineFragment" ->
                 LET first == ArraySpread(list)
                     sub == getSortObject(info, ast, Str(prefix))
                 IN IF ~first.ok THEN first
                    ELSE IF ~sub.ok THEN sub
                    ELSE SpreadConcat(list, sub.val, <<>>)
            [] kind = "FragmentSpread" ->
                 LET first == ArraySpread(list)
                     sub == getSortObject(info, ObjGet(info.fragments, ast.name.value), Str(prefix))
                 IN IF ~first.ok THEN first
                    ELSE IF ~sub.ok THEN sub
                    ELSE SpreadConcat(list, sub.val, <<>>)
            [] OTHER -> Err("Unsuported query selection")

\* selections.reduce(callback, []): a throw ends the reduce
SortReduce(info, parentName, acc, sels) ==
  IF ~acc.ok \/ sels = <<>> THEN acc
  ELSE SortReduce(info, parentName, SortStep(info, parentName, acc.val, Head(sels)), Tail(sels))

getSortObject(info, fieldNodes, parentName) ==
  IF ~Truthy(info) THEN Ok(Obj(<<>>))
  ELSE LET fieldArr == SortReduce(info, parentName, Ok(Arr(<<>>)),
                                  SelectionsOf(NodesOf(info, fieldNodes)))
       IN IF fieldArr.ok THEN Ok(Obj(SortFold(<<>>, orderBy(ValuesOf(fieldArr.val)))))
          ELSE fieldArr

(***************************************************************************)
(* The selection trees the compiler is given                               *)
(***************************************************************************)
Name(s) == [kind |-> "Name", value |-> s]
Argument(n, v) == [kind |-> "Argument", name |-> Name(n), value |-> v]
IntValue(s) == [kind |-> "IntValue", value |-> Str(s)]
FloatValue(s) == [kind |-> "FloatValue", value |-> Str(s)]
StringValue(s) == [kind |-> "StringValue", value |-> Str(s)]
BooleanValue(b) == [kind |-> "BooleanValue", value |-> Bool(b)]
NullValue == [kind |-> "NullValue"]
EnumValue(s) == [kind |-> "EnumValue", value |-> Str(s)]
VariableRef(s) == [kind |-> "Variable", name |-> Name(s)]
ListValue(vs) == [kind |-> "ListValue", values |-> vs]
SelectionSet(sels) == [kind |-> "SelectionSet", selections |-> sels]
Field(n, args, sels) ==
  [kind |-> "Field", name |-> Name(n), arguments |-> args,
   selectionSet |-> IF sels = <<>> THEN Undefined ELSE SelectionSet(sels)]
InlineFragment(sels) == [kind |-> "InlineFragment", selectionSet |-> SelectionSet(sels)]
FragmentSpread(n) == [kind |-> "FragmentSpread", name |-> Name(n)]
FragmentDefinition(n, sels) ==
  [kind |-> "FragmentDefinition", name |-> Name(n), selectionSet |-> SelectionSet(sels)]
\* nodes of a kind the compiler does not support, with and without a name
OtherNamed == [kind |-> "Directive", name |-> Name(<<"x">>)]
OtherUnnamed == [kind |-> "Document"]

S_desc == <<"d", "e", "s", "c">>
S_asc == <<"a", "s", "c">>

\* the request's variable bindings, coerced by the executor: a sort direction
\* arrives as the enum's internal value (desc: -1), an op as its value 'or'
VariableValues ==
  Obj(<<[k |-> <<"v">>, v |-> Num(7)], [k |-> <<"d">>, v |-> Num(0 - 1)],
        [k |-> <<"o">>, v |-> Num(1)], [k |-> <<"p">>, v |-> Str(S_or)]>>)

A_gt == <<Argument(S_gt, IntValue(<<"5">>))>>
A_sortDesc == <<Argument(S_sort, EnumValue(S_desc))>>
A_sortAsc2 == <<Argument(S_sort, EnumValue(S_asc)), Argument(S_sortOrder, IntValue(<<"2">>))>>
A_sortVar1 == <<Argument(S_sort, VariableRef(<<"d">>)), Argument(S_sortOrder, IntValue(<<"1">>))>>
A_sortDescVarOrder ==
  <<Argument(S_sort, EnumValue(S_desc)), Argument(S_sortOrder, VariableRef(<<"o">>))>>
A_gtSortAsc == <<Argument(S_gt, IntValue(<<"5">>)), Argument(S_sort, EnumValue(S_asc))>>

\* the argument lists a selected field carries
ArgLists ==
  { <<>>,
    A_gt,
    <<Argument(S_eq, StringValue(<<"x">>)), Argument(S_op, EnumValue(S_or)),
      Argument(S_lt, IntValue(<<"3">>))>>,
    <<Argument(S_gt, VariableRef(<<"v">>)), Argument(S_lte, IntValue(<<"1", "2">>)),
      Argument(S_op, VariableRef(<<"p">>))>>,
    <<Argument(S_in, ListValue(<<IntValue(<<"1">>), VariableRef(<<"v">>)>>))>>,
    <<Argument(S_eq, NullValue), Argument(S_ne, BooleanValue(FALSE)),
      Argument(S_lt, FloatValue(<<"1", ".", "5", "0">>))>>,
    A_sortDesc, A_sortAsc2, A_sortVar1, A_sortDescVarOrder, A_gtSortAsc }

\* what a field selects below itself
SubSelections ==
  { <<>>,
    <<Field(<<"c">>, A_gtSortAsc, <<>>)>>,
    <<Field(<<"a">>, A_sortVar1, <<>>)>> }

\* the named fragments of the document
Fragments ==
  Obj(<<[k |-> <<"F">>, v |-> FragmentDefinition(<<"F">>, <<Field(<<"c">>, A_gtSortAsc, <<>>)>>)],
        [k |-> <<"G">>, v |-> FragmentDefinition(<<"G">>, <<OtherNamed>>)]>>)

FieldNames == {<<"a">>, <<"b">>}

\* the selections one level below the query's root field: fields with nothing
\* below, fields with a selection below, fragments, and nodes of other kinds
Selections1 ==
  {Field(n, args, <<>>) : n \in FieldNames, args \in ArgLists}
    \cup {Field(<<"b">>, args, sub) : args \in {<<>>, A_gt, A_sortDesc},
                                     sub \in SubSelections \ {<<>>}}
    \cup { InlineFragment(<<Field(<<"c">>, A_gtSortAsc, <<>>)>>),
           FragmentSpread(<<"F">>), FragmentSpread(<<"G">>),
           Field(<<"a">>, <<>>, <<OtherUnnamed>>),
           OtherNamed, OtherUnnamed }

\* fields that all carry `sort`, for the orderings of three of them
SortFields ==
  {Field(n, args, <<>>) : n \in {<<"a">>, <<"b">>, <<"c">>},
                          args \in {A_sortDesc, A_sortAsc2, A_sortVar1}}

MaxSel == 2
MaxSortSel == 3

SeqsUpTo(S, n) == UNION {[1..k -> S] : k \in 0..n}

SelectionLists == SeqsUpTo(Selections1, MaxSel) \cup [1..MaxSortSel -> SortFields]

\* the info object of a resolver call whose root field selects `sels`
InfoOf(sels) ==
  [fieldNodes |-> Arr(<<Field(<<"x">>, <<>>, sels)>>),
   fragments |-> Fragments,
   variableValues |-> VariableValues]

\* a context with no field nodes: programmatic use outside a request
InfoNoNodes(fn) ==
  [fieldNodes |-> fn, fragments |-> Obj(<<>>), variableValues |-> Obj(<<>>)]

Infos ==
  {Null, Undefined, InfoNoNodes(Undefined), InfoNoNodes(Arr(<<>>))}
    \cup {InfoOf(sels) : sels \in SelectionLists}

\* the builds: how a non-iterable is spread into an array literal, and how the
\* engine's sort leaves a pair its comparer orders both ways
Builds == [spread : {"arrayFrom", "throw"}, nanTie : {"keep", "swap"}]

NotCalled == [called |-> FALSE]
Returned(r) == [called |-> TRUE, res |-> r]

compilerVars == <<build, resolveInfo, filterOut, sortOut>>
hookVars == <<hooks, pc, chain, result, returned, log>>
typeVars == <<models, heap, contexts, typeCache, now, typeOut>>
cacheVars == <<gmodels, schemas, modelCache, schemaCache, cacheOut>>
vars == <<build, resolveInfo, filterOut, sortOut, hooks, pc, chain, result, returned, log,
          models, heap, contexts, typeCache, now, typeOut,
          gmodels, schemas, modelCache, schemaCache, cacheOut>>

NewChain == [next |-> 1, running |-> FALSE, result |-> Undefined]

\* no resolve function is being called
HooksIdle ==
  /\ hooks = [pre |-> 0, post |-> 0, args |-> <<>>]
  /\ pc = "idle"
  /\ chain = NewChain
  /\ result = Undefined
  /\ returned = Undefined
  /\ log = <<>>

EmptyHeap == [objs |-> <<>>, fobjs |-> <<>>, inputs |-> <<>>, rfields |-> <<>>]

\* no type context has been created
TypesIdle ==
  /\ models = <<>>
  /\ heap = EmptyHeap
  /\ contexts = <<>>
  /\ typeCache = <<>>
  /\ now = 0
  /\ typeOut = <<>>

\* no model and no schema has been built
CachesIdle ==
  /\ gmodels = <<>>
  /\ schemas = <<>>
  /\ modelCache = <<>>
  /\ schemaCache = <<>>
  /\ cacheOut = <<>>

Init ==
  /\ build \in Builds
  /\ resolveInfo \in Infos
  /\ filterOut = NotCalled
  /\ sortOut = NotCalled
  /\ HooksIdle
  /\ TypesIdle
  /\ CachesIdle

\* a resolver calls getFilterObject(info)
CallGetFilterObject ==
  /\ ~filterOut.called
  /\ filterOut' = Returned(getFilterObject(resolveInfo, Undefined, Undefined))
  /\ UNCHANGED <<build, resolveInfo, sortOut>>
  /\ UNCHANGED hookVars
  /\ UNCHANGED typeVars
  /\ UNCHANGED cacheVars

\* a resolver calls getSortObject(info)
CallGetSortObject ==
  /\ ~sortOut.called
  /\ sortOut' = Returned(getSortObject(resolveInfo, Undefined, Undefined))
  /\ UNCHANGED <<build, resolveInfo, filterOut>>
  /\ UNCHANGED hookVars
  /\ UNCHANGED typeVars
  /\ UNCHANGED cacheVars

Next == CallGetFilterObject \/ CallGetSortObject

Spec == Init /\ [][Next]_vars

(***************************************************************************)
(* What the claims speak of: the selection tree read as the specification  *)
(* reads it                                                                *)
(***************************************************************************)
\* the selections of the root field of the context, none when there is no context
RootSelections ==
  IF Truthy(resolveInfo) /\ IsArray(Prop(resolveInfo, "fieldNodes"))
     /\ resolveInfo.fieldNodes.items # <<>>
     /\ Truthy(resolveInfo.fieldNodes.items[1].selectionSet)
  THEN resolveInfo.fieldNodes.items[1].selectionSet.selections
  ELSE <<>>

SubNodes(node) ==
  IF Truthy(Prop(node, "selectionSet")) THEN node.selectionSet.selections ELSE <<>>

JoinPath(path, name) == IF path = <<>> THEN name ELSE path \o <<".">> \o name

RECURSIVE Walk(_, _)
\* the fields of a tree in document order, each with its dotted path: a field adds
\* its name to the path, a fragment (inline or spread) adds nothing
Walk(sels, path) ==
  IF sels = <<>> THEN <<>>
  ELSE LET node == Head(sels)
           here ==
             CASE node.kind = "Field" ->
                    <<[path |-> JoinPath(path, node.name.value), node |-> node]>>
                      \o Walk(SubNodes(node), JoinPath(path, node.name.value))
               [] node.kind = "InlineFragment" -> Walk(SubNodes(node), path)
               [] node.kind = "FragmentSpread" ->
                    Walk(SubNodes(ObjGet(resolveInfo.fragments, node.name.value)), path)
               [] OTHER -> <<>>
       IN here \o Walk(Tail(sels), path)

RECURSIVE Reachable(_)
\* every node of a tree, through fields, inline fragments and fragment spreads
Reachable(sels) ==
  IF sels = <<>> THEN {}
  ELSE LET node == Head(sels)
           below ==
             CASE node.kind \in {"Field", "InlineFragment"} -> Reachable(SubNodes(node))
               [] node.kind = "FragmentSpread" ->
                    Reachable(SubNodes(ObjGet(resolveInfo.fragments, node.name.value)))
               [] OTHER -> {}
       IN {node} \cup below \cup Reachable(Tail(sels))

SupportedKinds == {"Field", "InlineFragment", "FragmentSpread"}

\* the tree is made of fields alone
OnlyFields == \A node \in Reachable(RootSelections) : node.kind = "Field"

\* the comparison arguments of a field, in argument order
ComparisonArgs(args) == SelectSeq(args, LAMBDA it : IsComparison(it.name.value))

HasArg(node, n) == \E i \in 1..Len(node.arguments) : node.arguments[i].name.value = n

ArgNamed(node, n) ==
  node.arguments[CHOOSE i \in 1..Len(node.arguments) : node.arguments[i].name.value = n]

\* what an argument says: the literal as written, or the value its variable is bound to
Said(arg) ==
  IF arg.value.kind = "Variable" THEN ObjGet(resolveInfo.variableValues, arg.value.name.value)
  ELSE arg.value.value

\* the entry claimed for a field with comparison arguments: the single clause, or
\* the clauses under the field's op (and when it has none)
ClaimedEntry(node, value(_)) ==
  LET cmp == ComparisonArgs(node.arguments)
      clause(i) == Obj(<<[k |-> <<"$">> \o cmp[i].name.value, v |-> value(cmp[i].value)]>>)
      op == IF HasArg(node, S_op) THEN Said(ArgNamed(node, S_op)).s ELSE S_and
  IN IF Len(cmp) = 1 THEN clause(1)
     ELSE Obj(<<[k |-> <<"$">> \o op, v |-> Arr([i \in 1..Len(cmp) |-> clause(i)])]>>)

\* the filter claimed for the walked fields w: every field with comparison arguments
\* has its entry at its path (the last one, when a path is selected twice), and a
\* path whose fields carry none has no entry
FilterAsClaimed(w, out, value(_)) ==
  /\ \A i \in 1..Len(w) :
       LET k == Len(ComparisonArgs(w[i].node.arguments))
           last == \A j \in (i + 1)..Len(w) :
                     w[j].path = w[i].path => ComparisonArgs(w[j].node.arguments) = <<>>
       IN k > 0 /\ last => ObjGet(out, w[i].path) = ClaimedEntry(w[i].node, value)
  /\ \A e \in 1..Len(out.kv) :
       \E i \in 1..Len(w) :
         out.kv[e].k = w[i].path /\ ComparisonArgs(w[i].node.arguments) # <<>>

CodeValue(x) == parseValue(resolveInfo, x)

\* C1: a field with no comparison argument adds no entry, with one it adds that
\* clause at its path, with several it adds them, in argument order, under $<op>,
\* op being the field's op argument or `and`.  Stated for trees made of fields
\* alone and with each value as parseValue gives it.
C1_FilterShape ==
  filterOut.called /\ OnlyFields =>
    /\ filterOut.res.ok
    /\ FilterAsClaimed(Walk(RootSelections, <<>>), filterOut.res.val, CodeValue)

\* C1 with every op written as an enum literal in the query text
C1_FilterShapeLiteralOp ==
  (\A node \in Reachable(RootSelections) :
     node.kind = "Field" /\ HasArg(node, S_op) => ArgNamed(node, S_op).value.kind = "EnumValue")
    => C1_FilterShape

\* the root field selects fields only, each with a `sort` argument and nothing below
SortBearingOnly ==
  /\ RootSelections # <<>>
  /\ \A i \in 1..Len(RootSelections) :
       /\ RootSelections[i].kind = "Field"
       /\ HasArg(RootSelections[i], S_sort)
       /\ SubNodes(RootSelections[i]) = <<>>

\* the priority a field asks for: its sortOrder, none (Infinity) without one
ClaimedPriority(node) ==
  IF HasArg(node, S_sortOrder)
  THEN LET said == Said(ArgNamed(node, S_sortOrder))
       IN IF said.t = "str" THEN ParseIntChars(said.s) ELSE said
  ELSE Infinity

\* the direction a field asks for: -1 for the descending literal, 1 for the
\* ascending one, the bound direction of a variable, 1 when it is none of these
ClaimedDirection(node) ==
  LET said == Said(ArgNamed(node, S_sort))
  IN CASE said = Str(S_desc) \/ said = Str(<<"D", "E", "S", "C">>) -> Num(0 - 1)
       [] said = Str(S_asc) \/ said = Str(<<"A", "S", "C">>) -> Num(1)
       [] said = Num(0 - 1) \/ said = Num(1) -> said
       [] OTHER -> Num(1)

\* a before b among priorities: a number before a larger one and before none
PriorityLess(a, b) == a.t = "num" /\ (b.t = "Infinity" \/ (b.t = "num" /\ a.n < b.n))

\* the claimed order of two entries: priority, then path, then direction, then as selected
ClaimedBefore(es, i, j) ==
  \/ PriorityLess(es[i].order, es[j].order)
  \/ /\ es[i].order = es[j].order
     /\ \/ StrLess(es[i].name, es[j].name)
        \/ /\ es[i].name = es[j].name
           /\ \/ es[i].value.n < es[j].value.n
              \/ es[i].value = es[j].value /\ i < j

RECURSIVE FoldEntries(_, _)
\* the ordered mapping of a sorted list: a path keeps the place of its first entry
\* and takes the direction of its last
FoldEntries(kv, es) ==
  IF es = <<>> THEN kv ELSE FoldEntries(ObjSet(kv, Head(es).name, Head(es).value), Tail(es))

\* the ordered mapping claimed for sort-bearing selections, each direction as the
\* code reads it
ClaimedSort(sels) ==
  LET es == [i \in 1..Len(sels) |->
               [name |-> sels[i].name.value,
                value |-> SortDirection(resolveInfo, ArgNamed(sels[i], S_sort)),
                order |-> ClaimedPriority(sels[i])]]
      n == Len(es)
      pos(i) == 1 + Cardinality({j \in 1..n : j # i /\ ClaimedBefore(es, j, i)})
  IN FoldEntries(<<>>, [p \in 1..n |-> es[CHOOSE i \in 1..n : pos(i) = p]])

Orderings(n) == {f \in [1..n -> 1..n] : \A i, j \in 1..n : f[i] = f[j] => i = j}

\* C2: the ordered mapping of sort-bearing selections goes by (sortOrder ascending,
\* fields without sortOrder last, path ascending), a path selected twice takes the
\* direction of its later entry in that order, and every permutation of the
\* selections gives the same ordered mapping.
C2_SortOrder ==
  sortOut.called /\ sortOut.res.ok /\ SortBearingOnly =>
    /\ sortOut.res.val.kv = ClaimedSort(RootSelections)
    /\ \A f \in Orderings(Len(RootSelections)) :
         getSortObject(InfoOf([i \in 1..Len(RootSelections) |-> RootSelections[f[i]]]),
                       Undefined, Undefined) = sortOut.res

\* every sortOrder of the selections is an integer literal of the query text
LiteralPriorities ==
  \A i \in 1..Len(RootSelections) :
    HasArg(RootSelections[i], S_sortOrder) =>
      ArgNamed(RootSelections[i], S_sortOrder).value.kind = "IntValue"

\* C2 with every sortOrder written as a literal
C2_SortOrderLiteral == SortBearingOnly /\ LiteralPriorities => C2_SortOrder

\* the selections have pairwise different names
DistinctNames ==
  \A i, j \in 1..Len(RootSelections) :
    RootSelections[i].name.value = RootSelections[j].name.value => i = j

\* C3: the direction stored for a field is -1 for the descending literal and 1 for
\* the ascending one, for a literal of the query text as for a variable.
C3_Direction ==
  sortOut.called /\ sortOut.res.ok /\ SortBearingOnly /\ DistinctNames =>
    \A i \in 1..Len(RootSelections) :
      ObjGet(sortOut.res.val, RootSelections[i].name.value) = ClaimedDirection(RootSelections[i])

\* C3 for the fields whose direction is a variable
C3_DirectionOfVariable ==
  sortOut.called /\ sortOut.res.ok /\ SortBearingOnly /\ DistinctNames =>
    \A i \in 1..Len(RootSelections) :
      ArgNamed(RootSelections[i], S_sort).value.kind = "Variable" =>
        ObjGet(sortOut.res.val, RootSelections[i].name.value)
          = ClaimedDirection(RootSelections[i])

\* C4: every field that carries `sort` has an entry at its dotted path, at any
\* depth, under a parent without `sort`, before or after siblings without `sort`,
\* and a field without `sort` causes no error.
C4_EverySortField ==
  sortOut.called /\ OnlyFields =>
    /\ sortOut.res.ok
    /\ LET w == Walk(RootSelections, <<>>)
       IN \A i \in 1..Len(w) :
            HasArg(w[i].node, S_sort) => HasKey(sortOut.res.val.kv, w[i].path)

\* every node of the tree is a field, an inline fragment or a fragment spread
OnlySupported == \A node \in Reachable(RootSelections) : node.kind \in SupportedKinds

\* C5: the key of a clause is the dot-joined field names from the top down to the
\* field; a fragment, inline or spread, adds no segment and causes no error.
C5_FragmentsTransparent ==
  filterOut.called /\ OnlySupported =>
    /\ filterOut.res.ok
    /\ LET w == Walk(RootSelections, <<>>)
           keyed == {w[i].path : i \in {j \in 1..Len(w) : ComparisonArgs(w[j].node.arguments) # <<>>}}
       IN {filterOut.res.val.kv[e].k : e \in 1..Len(filterOut.res.val.kv)} = keyed

\* C5 for the trees without fragments
C5_KeysOfFields == OnlyFields => C5_FragmentsTransparent

\* the context is absent, or has no field node, or only field nodes without a
\* selection set
EmptyContext ==
  \/ resolveInfo \in {Null, Undefined}
  \/ ~IsArray(Prop(resolveInfo, "fieldNodes"))
  \/ \A i \in 1..Len(resolveInfo.fieldNodes.items) :
       Prop(resolveInfo.fieldNodes.items[i], "selectionSet") = Undefined

\* C6: from an absent or empty selection context both compilers return the empty
\* mapping and raise no error.
C6_EmptyContext ==
  EmptyContext =>
    /\ filterOut.called => filterOut.res = Ok(Obj(<<>>))
    /\ sortOut.called => sortOut.res = Ok(Obj(<<>>))

\* both compilers were called on an absent context
C6_Witness == resolveInfo = Null /\ filterOut.called /\ sortOut.called

\* both compilers were called on a context whose root field selects nothing
C6_WitnessNoSelectionSet ==
  /\ Truthy(resolveInfo) /\ IsArray(resolveInfo.fieldNodes)
  /\ resolveInfo.fieldNodes.items # <<>> /\ EmptyContext
  /\ filterOut.called /\ sortOut.called

\* C7: when a node of another kind than field, inline fragment or fragment spread
\* is reachable in the tree, both compilers end with an error and hand no mapping
\* to the caller.
C7_UnsupportedAborts ==
  ~OnlySupported =>
    /\ filterOut.called => ~filterOut.res.ok /\ "val" \notin DOMAIN filterOut.res
    /\ sortOut.called => ~sortOut.res.ok /\ "val" \notin DOMAIN sortOut.res

\* both compilers were called on a tree whose unsupported node comes after a field
\* that has a clause and a sort entry of its own
C7_Witness ==
  /\ filterOut.called /\ sortOut.called
  /\ Len(RootSelections) = 2
  /\ RootSelections[1] = Field(<<"a">>, A_gtSortAsc, <<>>)
  /\ RootSelections[2] = OtherNamed

RECURSIVE ClaimedValue(_)
\* a literal parsed by its kind: a list is the list of its elements parsed alike,
\* a variable is its bound value
ClaimedValue(x) ==
  CASE x.kind = "IntValue" -> ParseIntChars(x.value.s)
    [] x.kind = "FloatValue" -> ParseFloatChars(x.value.s)
    [] x.kind = "StringValue" -> x.value
    [] x.kind = "BooleanValue" -> x.value
    [] x.kind = "NullValue" -> Null
    [] x.kind = "Variable" -> ObjGet(resolveInfo.variableValues, x.name.value)
    [] x.kind = "ListValue" -> Arr([i \in 1..Len(x.values) |-> ClaimedValue(x.values[i])])
    [] OTHER -> x.value

\* the values of the clauses of a field's entry, in order
EntryValues(entry, k) ==
  IF k = 1 THEN <<entry.kv[1].v>>
  ELSE [i \in 1..k |-> entry.kv[1].v.items[i].kv[1].v]

\* the clause values of the walked fields w are the literals parsed by `value`
ValuesAsClaimed(w, out, value(_)) ==
  \A i \in 1..Len(w) :
    LET cmp == ComparisonArgs(w[i].node.arguments)
        last == \A j \in (i + 1)..Len(w) :
                  w[j].path = w[i].path => ComparisonArgs(w[j].node.arguments) = <<>>
    IN cmp # <<>> /\ last =>
         EntryValues(ObjGet(out, w[i].path), Len(cmp)) = [a \in 1..Len(cmp) |-> value(cmp[a].value)]

\* C8: a comparison literal is parsed by its kind: a number, string, boolean or
\* null literal is that value, a variable its bound value, a list the list of its
\* elements parsed by the same rules.
C8_ParseByKind ==
  filterOut.called /\ OnlyFields =>
    /\ filterOut.res.ok
    /\ ValuesAsClaimed(Walk(RootSelections, <<>>), filterOut.res.val, ClaimedValue)

\* a list literal is among the comparison values of the tree
HasListValue ==
  \E node \in Reachable(RootSelections) :
    node.kind = "Field" /\ \E i \in 1..Len(node.arguments) : node.arguments[i].value.kind = "ListValue"

\* C8 for the trees without a list literal
C8_ParseScalars == ~HasListValue => C8_ParseByKind

(***************************************************************************)
(* addHooks: resolve(...args) runs the pre chain, the resolver, the post   *)
(* chain.  Middleware.compose is not part of the sources at hand; it is    *)
(* modelled as the specification describes it: the hooks of a chain run    *)
(* one after the other in list order, the chain's result is the result of  *)
(* its last hook, and a hook that fails ends the chain.                    *)
(***************************************************************************)
MaxHooks == 2

\* the arguments of a resolver call: (root, args, context, info), here two of them
CallArgs == {<<Str(<<"a">>)>>, <<Str(<<"a">>), Num(1)>>}

\* what a resolver gives
ResolverResults == {Null, Arr(<<>>), Obj(<<[k |-> <<"a">>, v |-> Num(1)]>>)}

\* what a hook gives
HookResults ==
  {Undefined, Null, Num(0), Str(<<>>), Bool(FALSE), Obj(<<>>), Arr(<<>>),
   Str(<<"x">>), Obj(<<[k |-> <<"b">>, v |-> Num(2)]>>)}

ChainLength(which) == IF which = "pre" THEN hooks.pre ELSE hooks.post

\* compose(...args) has run every hook of the chain
ChainDone(which) == chain.next > ChainLength(which) /\ ~chain.running

\* the resolver invoked while the pre chain may still be running
PreAwaited_NotAwaited == TRUE

\* await preMiddleware.compose(...args): resolve goes on when the chain is done
PreAwaited == ChainDone("pre")

\* postMiddleware.compose(result, ...args)
PostArgs(res, args) == <<res>> \o args

\* the failures a hook or the resolver may raise
Failures == {"E1", "E2"}

\* a rejection awaited inside a handler that hides it from the caller
AwaitRejected_Swallowed(e) == Undefined

\* await of a promise rejected with e, outside any try: resolve rejects with e
AwaitRejected(e) == Err(e)

\* the chain's result returned whatever it is
ResolveValue_Always(chainResult, res) == chainResult

\* (await postMiddleware.compose(result, ...args)) || result
ResolveValue(chainResult, res) == IF Truthy(chainResult) THEN chainResult ELSE res

InitHooks ==
  /\ build = [spread |-> "arrayFrom", nanTie |-> "keep"]
  /\ resolveInfo = Null
  /\ filterOut = NotCalled
  /\ sortOut = NotCalled
  /\ hooks \in [pre : 0..MaxHooks, post : 0..MaxHooks, args : CallArgs]
  /\ pc = "pre"
  /\ chain = NewChain
  /\ result = Undefined
  /\ returned = Undefined
  /\ log = <<>>
  /\ TypesIdle
  /\ CachesIdle

\* the chain starts its next hook, with the arguments compose was given
HookStarts ==
  /\ pc \in {"pre", "post"}
  /\ ~chain.running
  /\ chain.next <= ChainLength(pc)
  /\ chain' = [chain EXCEPT !.running = TRUE]
  /\ log' = Append(log, [e |-> "start", chain |-> pc, i |-> chain.next,
                         args |-> IF pc = "pre" THEN hooks.args ELSE PostArgs(result, hooks.args)])
  /\ UNCHANGED <<hooks, pc, result, returned>>
  /\ UNCHANGED compilerVars
  /\ UNCHANGED typeVars
  /\ UNCHANGED cacheVars

\* the running hook completes with a value
HookReturns ==
  /\ pc \in {"pre", "post"}
  /\ chain.running
  /\ \E v \in HookResults :
       chain' = [next |-> chain.next + 1, running |-> FALSE, result |-> v]
  /\ log' = Append(log, [e |-> "end", chain |-> pc, i |-> chain.next])
  /\ UNCHANGED <<hooks, pc, result, returned>>
  /\ UNCHANGED compilerVars
  /\ UNCHANGED typeVars
  /\ UNCHANGED cacheVars

\* the running hook fails: the chain ends, and resolve with it
HookThrows ==
  /\ pc \in {"pre", "post"}
  /\ chain.running
  /\ pc' = "thrown"
  /\ chain' = [chain EXCEPT !.running = FALSE]
  /\ \E e \in Failures :
       /\ log' = Append(log, [e |-> "throw", chain |-> pc, i |-> chain.next, err |-> e])
       /\ returned' = AwaitRejected(e)
  /\ UNCHANGED <<hooks, result>>
  /\ UNCHANGED compilerVars
  /\ UNCHANGED typeVars
  /\ UNCHANGED cacheVars

\* new Middleware(post); resolver(...args) is invoked
ResolverInvoked ==
  /\ pc = "pre"
  /\ PreAwaited
  /\ pc' = "resolver"
  /\ log' = Append(log, [e |-> "invoke", args |-> hooks.args])
  /\ UNCHANGED <<hooks, chain, result, returned>>
  /\ UNCHANGED compilerVars
  /\ UNCHANGED typeVars
  /\ UNCHANGED cacheVars

\* const result = await resolver(...args); the post chain is composed
ResolverReturns ==
  /\ pc = "resolver"
  /\ \E r \in ResolverResults :
       /\ result' = r
       /\ log' = Append(log, [e |-> "resolved", val |-> r])
  /\ pc' = "post"
  /\ chain' = NewChain
  /\ UNCHANGED <<hooks, returned>>
  /\ UNCHANGED compilerVars
  /\ UNCHANGED typeVars
  /\ UNCHANGED cacheVars

\* the resolver fails
ResolverThrows ==
  /\ pc = "resolver"
  /\ pc' = "thrown"
  /\ \E e \in Failures :
       /\ log' = Append(log, [e |-> "rejected", err |-> e])
       /\ returned' = AwaitRejected(e)
  /\ UNCHANGED <<hooks, chain, result>>
  /\ UNCHANGED compilerVars
  /\ UNCHANGED typeVars
  /\ UNCHANGED cacheVars

\* return (await postMiddleware.compose(result, ...args)) || result
ResolveReturns ==
  /\ pc = "post"
  /\ ChainDone("post")
  /\ returned' = ResolveValue(chain.result, result)
  /\ pc' = "returned"
  /\ UNCHANGED <<hooks, chain, result, log>>
  /\ UNCHANGED compilerVars
  /\ UNCHANGED typeVars
  /\ UNCHANGED cacheVars

NextHooks ==
  \/ HookStarts
  \/ HookReturns
  \/ HookThrows
  \/ ResolverInvoked
  \/ ResolverReturns
  \/ ResolverThrows
  \/ ResolveReturns

SpecHooks == InitHooks /\ [][NextHooks]_vars

\* the events of the log before position k that satisfy P
Before(k, P(_)) == {j \in 1..(k - 1) : P(log[j])}

\* C9: every pre hook has finished, in list order and one at a time, before the
\* resolver is invoked; a post hook starts only after the resolver has given its
\* result, and is given that result followed by the arguments of the call.
C9_HookOrder ==
  \A k \in 1..Len(log) :
    /\ log[k].e = "invoke" =>
         /\ {log[j].i : j \in Before(k, LAMBDA ev : ev.e = "end" /\ ev.chain = "pre")}
              = 1..hooks.pre
         /\ \A j \in Before(k, LAMBDA ev : ev.e = "start") :
              \E m \in (j + 1)..(k - 1) : log[m].e = "end" /\ log[m].i = log[j].i
    /\ log[k].e = "start" =>
         /\ \A i \in 1..(log[k].i - 1) :
              \E j \in Before(k, LAMBDA ev : ev.e = "end" /\ ev.chain = log[k].chain) :
                log[j].i = i
         /\ \A j \in Before(k, LAMBDA ev : ev.e = "start") :
              \E m \in (j + 1)..(k - 1) : log[m].e = "end" /\ log[m].chain = log[j].chain
                                          /\ log[m].i = log[j].i
    /\ log[k].e = "start" /\ log[k].chain = "post" =>
         \E j \in Before(k, LAMBDA ev : ev.e = "resolved") :
           log[k].args = <<log[j].val>> \o hooks.args
    /\ log[k].e = "start" /\ log[k].chain = "pre" =>
         /\ log[k].args = hooks.args
         /\ Before(k, LAMBDA ev : ev.e = "invoke") = {}

\* a call with two pre hooks and two post hooks has returned
C9_Witness == pc = "returned" /\ hooks.pre = MaxHooks /\ hooks.post = MaxHooks

\* the values `||` takes for false
Falsy == {Undefined, Null, NaN, Num(0), Str(<<>>), Bool(FALSE)}

\* C10 as stated: an empty or falsy chain result (an empty object or list
\* included) leaves the resolver's own result, any other replaces it.
C10_EmptyKeepsResult ==
  pc = "returned" =>
    returned = IF chain.result \in Falsy \cup {Obj(<<>>), Arr(<<>>)} THEN result ELSE chain.result

\* C10 as amended: a falsy chain result (undefined, null, NaN, 0, '', false) leaves
\* the resolver's own result; any other, an empty object or an empty list
\* included, replaces it.
C10_FalsyKeepsResult ==
  pc = "returned" =>
    returned = IF chain.result \in Falsy THEN result ELSE chain.result

\* a post chain gave an empty object, and resolve returned it in place of the
\* resolver's result
C10_Witness ==
  /\ pc = "returned" /\ hooks.post > 0
  /\ chain.result = Obj(<<>>) /\ result # Obj(<<>>) /\ returned = Obj(<<>>)

\* the events of the log that are failures
IsFailure(ev) == ev.e \in {"throw", "rejected"}

\* C11: a failure is the last thing that happens in a call of resolve: after a
\* pre hook fails the resolver is not invoked and no post hook starts, after the
\* resolver fails no post hook starts, after a post hook fails no value is
\* returned; the caller receives the failure that was raised, unchanged.
C11_FailureAborts ==
  \A k \in 1..Len(log) :
    IsFailure(log[k]) =>
      /\ k = Len(log)
      /\ pc = "thrown"
      /\ returned = Err(log[k].err)
      /\ (log[k].e = "throw" /\ log[k].chain = "pre") =>
            \A j \in 1..Len(log) :
              /\ log[j].e # "invoke"
              /\ ~(log[j].e = "start" /\ log[j].chain = "post")
      /\ log[k].e = "rejected" =>
            \A j \in 1..Len(log) : ~(log[j].e = "start" /\ log[j].chain = "post")
      /\ (log[k].e = "throw" /\ log[k].chain = "post") =>
            /\ log[k].i < hooks.post =>
                 \A j \in 1..Len(log) : ~(log[j].e = "start" /\ log[j].i > log[k].i
                                            /\ log[j].chain = "post")

\* the first of two post hooks has failed after the resolver gave its result
C11_Witness ==
  /\ pc = "thrown" /\ hooks.post = MaxHooks /\ hooks.pre > 0
  /\ log[Len(log)].e = "throw" /\ log[Len(log)].chain = "post" /\ log[Len(log)].i = 1
  /\ returned = Err("E2")

(***************************************************************************)
(* The Type Synthesizer.  A GraphQL type is a record; an object type and   *)
(* an input object type are objects with an identity, kept in the heap and *)
(* referred to by their place in it; the field map an object type's        *)
(* `fields` thunk returns is an object of the heap too, because a type     *)
(* rebuilt from another's config shares it.                                *)
(***************************************************************************)
KvGet(kv, k) == kv[CHOOSE i \in 1..Len(kv) : kv[i].k = k].v

LowerCase == <<"a", "b", "c", "d", "e", "f", "g", "h", "i", "j", "k", "l", "m",
               "n", "o", "p", "q", "r", "s", "t", "u", "v", "w", "x", "y", "z">>
UpperCase == <<"A", "B", "C", "D", "E", "F", "G", "H", "I", "J", "K", "L", "M",
               "N", "O", "P", "Q", "R", "S", "T", "U", "V", "W", "X", "Y", "Z">>

\* c.toUpperCase() of one character
toUpperCase(c) ==
  IF \E i \in 1..26 : LowerCase[i] = c
  THEN UpperCase[CHOOSE i \in 1..26 : LowerCase[i] = c]
  ELSE c

\* typeName + fieldName with its first character in upper case
getTypeFieldName(typeName, fieldName) ==
  IF fieldName = <<>> THEN typeName
  ELSE typeName \o <<toUpperCase(Head(fieldName))>> \o Tail(fieldName)

\* name.startsWith('__')
StartsWithDunder(name) == Len(name) >= 2 /\ name[1] = "_" /\ name[2] = "_"

S_id == <<"i", "d">>
S__id == <<"_", "i", "d">>
S_all == <<"a", "l", "l">>
S_size == <<"s", "i", "z", "e">>
S_elemMatch == <<"e", "l", "e", "m", "M", "a", "t", "c", "h">>
S_Enum == <<"E", "n", "u", "m">>
S_inputFor == <<"i", "n", "p", "u", "t", "F", "o", "r">>
S_Viewer == <<"V", "i", "e", "w", "e", "r">>
S_embedded == <<"e", "m", "b", "e", "d", "d", "e", "d">>

ScalarType(n) == [k |-> "scalar", name |-> n]
GraphQLString == ScalarType("String")
GraphQLFloat == ScalarType("Float")
GraphQLDate == ScalarType("Date")
GraphQLBuffer == ScalarType("Buffer")
GraphQLBoolean == ScalarType("Boolean")
GraphQLID == ScalarType("ID")
GraphQLGeneric == ScalarType("Generic")
GraphQLInt == ScalarType("Int")

GraphQLList(t) == [k |-> "list", ofType |-> t]
GraphQLNonNull(t) == [k |-> "nonnull", ofType |-> t]
GraphQLEnumType(name, values) == [k |-> "enum", name |-> name, values |-> values]
\* the object type, the input object type at place i of the heap
ObjectRef(i, name) == [k |-> "object", id |-> i, name |-> name]
InputRef(i) == [k |-> "input", id |-> i]

GraphQLLogical ==
  GraphQLEnumType(S_op, <<[k |-> S_and, v |-> Str(S_and)], [k |-> S_or, v |-> Str(S_or)],
                          [k |-> <<"n", "o", "t">>, v |-> Str(<<"n", "o", "t">>)],
                          [k |-> <<"n", "o", "r">>, v |-> Str(<<"n", "o", "r">>)]>>)

GraphQLSort ==
  GraphQLEnumType(S_sort, <<[k |-> S_desc, v |-> Num(0 - 1)], [k |-> S_asc, v |-> Num(1)]>>)

stringToGraphQLType(type) ==
  CASE type = "String" -> GraphQLString
    [] type = "Number" -> GraphQLFloat
    [] type = "Date" -> GraphQLDate
    [] type = "Buffer" -> GraphQLBuffer
    [] type = "Boolean" -> GraphQLBoolean
    [] type = "ObjectID" -> GraphQLID
    [] OTHER -> GraphQLGeneric

\* listToGraphQLEnumType(list, name)
listToGraphQLEnumType(list, name) ==
  GraphQLEnumType(name, [i \in 1..Len(list) |-> [k |-> list[i], v |-> Str(list[i])]])

\* what a step of the synthesizer gives: the state it leaves and a value, or
\* the state it leaves and the error thrown
Ret(st, v) == [ok |-> TRUE, st |-> st, val |-> v]
Throw(st, e) == [ok |-> FALSE, st |-> st, err |-> e]

\* getTypeFields(type) of an object type: what its `fields` thunk returns
getTypeFields(st, type) ==
  IF st.objs[type.id].fobj = 0 THEN <<>> ELSE st.fobjs[st.objs[type.id].fobj]

\* the field object an entry of a field map holds: the field itself, or the
\* reference field put there when the references were resolved
FieldOf(st, v) ==
  IF "k" \in DOMAIN v
  THEN [name |-> st.rfields[v.id].name, type |-> st.rfields[v.id].type, args |-> <<>>,
        resolve |-> "reference"]
  ELSE v

\* createInputObject(type): the input mirror of an output type, one per type name
RECURSIVE createInputObject(_, _)
RECURSIVE InputFieldsReduce(_, _, _)
InputFieldsReduce(st, fields, inputs) ==
  IF fields = <<>> THEN Ret(st, inputs)
  ELSE LET field == FieldOf(st, Head(fields).v)
       IN Bind(createInputObject(st, field.type), LAMBDA r :
            IF ~r.ok THEN r
            ELSE Bind(ObjSet(inputs, field.name, [type |-> r.val]), LAMBDA more :
                   InputFieldsReduce(r.st, Tail(fields), more)))

createInputObject(st, type0) ==
  LET type == IF type0.k = "nonnull" THEN type0.ofType ELSE type0
  IN IF type.k \in {"input", "scalar"} THEN Ret(st, type)
     ELSE IF type.k \in {"object", "enum"} /\ HasKey(st.inputBy, type.name)
       THEN Ret(st, KvGet(st.inputBy, type.name))
     \* a list has no name and no _typeConfig, an enum no _typeConfig:
     \* getTypeFields reads `.fields` of undefined
     ELSE IF type.k \in {"list", "enum"} THEN Throw(st, "TypeError")
     ELSE IF type.k # "object" THEN Throw(st, "OutOfModel")
     ELSE Bind(InputFieldsReduce(st, getTypeFields(st, type), <<>>), LAMBDA r :
            IF ~r.ok THEN r
            ELSE LET id == Len(r.st.inputs) + 1
                     made == [name |-> S_inputFor \o type.name, fields |-> r.val]
                 IN Ret([r.st EXCEPT !.inputs = Append(@, made),
                                     !.inputBy = ObjSet(@, type.name, InputRef(id))],
                        InputRef(id)))

\* one derived argument
Arg(name, type) == [k |-> name, v |-> [name |-> name, type |-> type]]

\* the comparison arguments, `op`, `sort` and `sortOrder` of a scalar or enum field
ValueArguments(type) ==
  << Arg(S_eq, type), Arg(S_gt, type), Arg(S_gte, type), Arg(S_lt, type),
     Arg(S_lte, type), Arg(S_ne, type), Arg(S_in, GraphQLList(type)),
     Arg(S_nin, GraphQLList(type)), Arg(S_op, GraphQLLogical),
     Arg(S_sort, GraphQLSort), Arg(S_sortOrder, GraphQLInt) >>

\* `type instanceof GraphQLObjectType`, asked of the field's type inside the
\* branch that has found it to be a GraphQLList
ElemMatchApplies(type) == type.k = "object"

\* getFieldArguments(field)
getFieldArguments(st, field) ==
  IF field.name \in {S__id, S_id} THEN Ret(st, <<>>)
  ELSE
    LET type == IF field.type.k = "nonnull" THEN field.type.ofType ELSE field.type
        args1 == IF type.k \in {"scalar", "enum"} THEN ValueArguments(type) ELSE <<>>
    IN IF type.k # "list" THEN Ret(st, args1)
       ELSE Bind(createInputObject(st, type.ofType), LAMBDA r :
              IF ~r.ok THEN r
              ELSE LET args2 == ObjAssign(args1, << Arg(S_all, GraphQLList(r.val)),
                                                    Arg(S_size, GraphQLInt) >>)
                   IN IF ~ElemMatchApplies(type) THEN Ret(r.st, args2)
                      ELSE Bind(createInputObject(r.st, type.ofType), LAMBDA e :
                             IF ~e.ok THEN e
                             ELSE Ret(e.st, ObjAssign(args2, <<Arg(S_elemMatch, e.val)>>))))

\* a field of a graffiti model (what getModel's getField and extractPath give);
\* <<>> and "" stand for a property that is absent
FieldDesc(key, type) ==
  [key |-> key, name |-> key, type |-> type, subtype |-> "", reference |-> <<>>,
   nonNull |-> FALSE, hidden |-> FALSE, fields |-> <<>>, enumValues |-> <<>>,
   embeddedModel |-> <<>>]

\* the name of a model, where a reference field's `type` still holds it
ModelName(n) == [k |-> "modelName", name |-> n]

\* the field object at place i of the heap's reference fields
FieldRef(i) == [k |-> "fieldRef", id |-> i]

\* resolveReference[typeName][fieldName] = field, a new field object kept for later
RecordReference(st, typeName, fieldName, field) ==
  LET id == Len(st.rfields) + 1
      old == IF HasKey(st.rr, typeName) THEN KvGet(st.rr, typeName) ELSE <<>>
  IN [st EXCEPT !.rfields = Append(@, field),
                !.rr = ObjSet(@, typeName, ObjSet(old, fieldName, FieldRef(id)))]

\* newPath.join('.')
RECURSIVE JoinDots(_)
JoinDots(path) ==
  IF path = <<>> THEN <<>>
  ELSE IF Len(path) = 1 THEN path[1]
  ELSE path[1] \o <<".">> \o JoinDots(Tail(path))

\* hidden || name.startsWith('__')
IsHidden(field, name) == field.hidden \/ StartsWithDunder(name)

\* every type taken for a root
IsRoot_Always(path) == TRUE

\* const root = path.length === 0
IsRoot(path) == Len(path) = 0

\* globalIdField(name, ...): the non-null ID field `id`
globalIdField ==
  [name |-> S_id, type |-> GraphQLNonNull(GraphQLID), args |-> <<>>, resolve |-> "globalId"]

\* new GraphQLObjectType(config): a new object of the heap; depth is the length
\* of the path it was built at, kept to tell what was built where
NewObjectType(st, name, interfaces, fobj, depth) ==
  LET id == Len(st.objs) + 1
  IN Ret([st EXCEPT !.objs = Append(@, [name |-> name, interfaces |-> interfaces,
                                         fobj |-> fobj, mongooseEmbedded |-> FALSE,
                                         depth |-> depth])],
         ObjectRef(id, name))

RECURSIVE getType(_, _, _, _)
RECURSIVE FieldsReduce(_, _, _, _, _, _)
RECURSIVE FieldType(_, _, _, _, _, _)

\* the type of one field, before the non-null wrapper; the state records a
\* plural reference on the way
FieldType(st, typeName, rootName, newPath, name, f) ==
  IF f.type = "Array" THEN
    IF f.subtype = "Object" THEN
      Bind(getType(st, [name |-> getTypeFieldName(typeName, name), fields |-> f.fields],
                   newPath, rootName),
           LAMBDA r : IF ~r.ok THEN r ELSE Ret(r.st, GraphQLList(r.val)))
    ELSE
      LET type == GraphQLList(stringToGraphQLType(f.subtype))
      IN IF f.reference = <<>> THEN Ret(st, type)
         ELSE Ret(RecordReference(st, rootName, name,
                    [name |-> name, type |-> ModelName(f.reference), connection |-> TRUE]),
                  type)
  ELSE IF f.type = "Object" THEN
    getType(st, [name |-> getTypeFieldName(typeName, name), fields |-> f.fields],
            newPath, rootName)
  ELSE IF f.type = "Embedded" THEN
    Bind(IF HasKey(st.types, name) THEN Ret(st, KvGet(st.types, name))
         ELSE getType(st, f.embeddedModel, <<S_embedded>>, <<>>),
         LAMBDA r : IF ~r.ok THEN r
                    ELSE Ret([r.st EXCEPT !.objs[r.val.id].mongooseEmbedded = TRUE], r.val))
  ELSE IF f.enumValues # <<>> /\ f.type = "String" THEN
    Ret(st, listToGraphQLEnumType(f.enumValues,
                                  getTypeFieldName(typeName, name \o S_Enum)))
  ELSE Ret(st, stringToGraphQLType(f.type))

\* the reduce over the model's fields: graphQLFields grows by one field a step
FieldsReduce(st, typeName, rootName, path, fields, graphQLFields) ==
  IF fields = <<>> THEN Ret(st, graphQLFields)
  ELSE
    LET f == Head(fields)
        name == IF f.name # <<>> THEN f.name ELSE f.key
        newPath == Append(path, name)
    IN IF IsHidden(f, name)
       THEN FieldsReduce(st, typeName, rootName, path, Tail(fields), graphQLFields)
       ELSE
         Bind(FieldType(st, typeName, rootName, newPath, name, f), LAMBDA t :
           IF ~t.ok THEN t
           ELSE
             LET st1 == IF f.reference # <<>> /\ t.val = GraphQLID
                        THEN RecordReference(t.st, rootName, JoinDots(newPath),
                               [name |-> name, type |-> ModelName(f.reference),
                                connection |-> FALSE])
                        ELSE t.st
                 type == IF f.nonNull THEN GraphQLNonNull(t.val) ELSE t.val
             IN Bind(getFieldArguments(st1, [name |-> name, type |-> type]), LAMBDA a :
                  IF ~a.ok THEN a
                  ELSE Bind(ObjSet(graphQLFields, name,
                                   [name |-> name, type |-> type, args |-> a.val,
                                    resolve |-> "source"]),
                            LAMBDA more : FieldsReduce(a.st, typeName, rootName, path,
                                                       Tail(fields), more))))

\* getType(graffitiModels, {name, fields}, path, rootType); rootName is <<>> for
\* a call without rootType
getType(st, model, path, rootName) ==
  LET root == IsRoot(path)
      rootName1 == IF rootName = <<>> THEN model.name ELSE rootName
      st0 == IF HasKey(st.rr, model.name) THEN st
             ELSE [st EXCEPT !.rr = ObjSet(@, model.name, <<>>)]
  IN Bind(FieldsReduce(st0, model.name, rootName1, path, model.fields, <<>>), LAMBDA r :
       IF ~r.ok THEN r
       ELSE
         LET graphQLTypeFields == IF root THEN ObjSet(r.val, S_id, globalIdField) ELSE r.val
             fobj == Len(r.st.fobjs) + 1
             st1 == [r.st EXCEPT !.fobjs = Append(@, graphQLTypeFields)]
             made == NewObjectType(st1, model.name,
                                   IF root THEN <<st.nodeInterface>> ELSE <<>>,
                                   fobj, Len(path))
         IN IF root
            THEN Ret([made.st EXCEPT !.types = ObjSet(@, model.name, made.val)], made.val)
            ELSE made)

(***************************************************************************)
(* The type cache: a NodeCache with useClones false.  get gives the stored *)
(* object itself while the entry lives, set and ttl make it live StdTTL    *)
(* from now.                                                               *)
(***************************************************************************)
StdTTL == 2

\* cache.get(key): undefined once the entry's time is over
CacheGet(cache, key) ==
  IF \E i \in 1..Len(cache) : cache[i].k = key /\ now <= cache[i].t
  THEN KvGet(cache, key)
  ELSE [k |-> "undefined"]

\* cache.set(key, value)
CacheSet(cache, key, value) ==
  IF HasKey(cache, key)
  THEN [i \in 1..Len(cache) |->
          IF cache[i].k = key THEN [k |-> key, v |-> value, t |-> now + StdTTL] ELSE cache[i]]
  ELSE Append(cache, [k |-> key, v |-> value, t |-> now + StdTTL])

\* cache.ttl(key): a living entry lives StdTTL from now
CacheTtl(cache, key) ==
  [i \in 1..Len(cache) |->
     IF cache[i].k = key /\ now <= cache[i].t THEN [cache[i] EXCEPT !.t = now + StdTTL]
     ELSE cache[i]]

(***************************************************************************)
(* getTypes                                                                *)
(***************************************************************************)
UndefinedType == [k |-> "undefined"]

\* connectionDefinitions({name, nodeType, connectionFields: {count}}).connectionType
ConnectionType(name, nodeType) ==
  [k |-> "connection", name |-> name \o <<"C", "o", "n", "n", "e", "c", "t", "i", "o", "n">>,
   nodeType |-> nodeType, count |-> GraphQLFloat]

\* the property key a value makes when it indexes `types`: a string is itself,
\* an object type its name (GraphQLObjectType's toString)
TypeKey(t) ==
  IF t.k = "undefined" THEN <<"u", "n", "d", "e", "f", "i", "n", "e", "d">> ELSE t.name

\* types[field.type]
LookupType(types, t) ==
  IF HasKey(types, TypeKey(t)) THEN KvGet(types, TypeKey(t)) ELSE UndefinedType

\* fieldName.split('.')
RECURSIVE SplitDots(_, _)
SplitDots(s, cur) ==
  IF s = <<>> THEN <<cur>>
  ELSE IF Head(s) = "." THEN <<cur>> \o SplitDots(Tail(s), <<>>)
  ELSE SplitDots(Tail(s), Append(cur, Head(s)))

\* the field map the walk goes down to from `parent` through `segment`; 0 is an
\* object no type keeps (what a connection's thunk makes at each call)
StepInto(st, parent, segment) ==
  IF parent = 0 \/ ~HasKey(st.fobjs[parent], segment) THEN parent
  ELSE LET type == FieldOf(st, KvGet(st.fobjs[parent], segment)).type
           inner == IF type.k = "list" THEN type.ofType ELSE type
       IN IF inner.k = "object" THEN st.objs[inner.id].fobj
          ELSE IF inner.k = "connection" THEN 0
          ELSE parent

\* path.reduce(...): the field is put at the last segment
RECURSIVE WalkPath(_, _, _, _)
WalkPath(st, parent, path, fref) ==
  IF path = <<>> THEN st
  ELSE Bind(StepInto(st, parent, Head(path)), LAMBDA inner :
         Bind(IF Len(path) = 1 /\ inner # 0
              THEN [st EXCEPT !.fobjs[inner] = ObjSet(@, Head(path), fref)]
              ELSE st,
              LAMBDA st1 : WalkPath(st1, inner, Tail(path), fref)))

\* field.type after the lookup: the referenced type, or a connection to it
ResolvedType(types, typeName, fieldName, field) ==
  IF field.connection
  THEN ConnectionType(getTypeFieldName(typeName, fieldName), LookupType(types, field.type))
  ELSE LookupType(types, field.type)

\* the reduce over the reference fields recorded for one type
RECURSIVE ResolveFields(_, _, _, _, _)
ResolveFields(st, types, typeName, fields, typeFobj) ==
  IF fields = <<>> THEN st
  ELSE LET fieldName == Head(fields).k
           fref == Head(fields).v
           type == ResolvedType(types, typeName, fieldName, st.rfields[fref.id])
           st1 == [st EXCEPT !.rfields[fref.id].type = type]
       IN Bind(WalkPath(st1, typeFobj, SplitDots(fieldName, <<>>), fref), LAMBDA st2 :
            ResolveFields(st2, types, typeName, Tail(fields), typeFobj))

\* forEach(resolveReference, ...)
RECURSIVE ResolveReferences(_, _, _, _)
ResolveReferences(st, types, reResolveTypes, rr) ==
  IF rr = <<>> THEN st
  ELSE LET typeName == Head(rr).k
       IN Bind(IF typeName \in reResolveTypes \/ ~HasKey(types, typeName) THEN st
               ELSE ResolveFields(st, types, typeName, Head(rr).v,
                                  st.objs[KvGet(types, typeName).id].fobj),
               LAMBDA st1 : ResolveReferences(st1, types, reResolveTypes, Tail(rr)))

\* type._typeConfig.interfaces[0] !== nodeInterface
NodeInterfaceDiffers(st, type) == st.objs[type.id].interfaces[1] # st.nodeInterface

\* the cache handle's operation op raises in this call, for every key or for
\* the one key the fault is set for
CacheFails(st, op, key) == st.fault = op /\ st.faultKey \in {<<>>, key}

\* the type of one model: built, or taken from the cache; an operation of the
\* cache that raises ends the call, nothing catches it
TypeOfModel(st, model) ==
  IF st.useCache THEN
    IF CacheFails(st, "get", model.key) THEN Throw(st, "CacheError")
    ELSE
      LET type == CacheGet(st.cache, model.key)
      IN IF type.k = "undefined" THEN
           Bind(getType(st, model, <<>>, <<>>), LAMBDA r :
             IF ~r.ok THEN r
             ELSE IF CacheFails(st, "set", model.key) THEN Throw(r.st, "CacheError")
             ELSE Ret([r.st EXCEPT !.cache = CacheSet(@, model.key, r.val)],
                      [type |-> r.val, rebuilt |-> FALSE]))
         ELSE IF NodeInterfaceDiffers(st, type) THEN
           LET made == NewObjectType(st, type.name, <<st.nodeInterface>>,
                                    st.objs[type.id].fobj, st.objs[type.id].depth)
               st1 == [made.st EXCEPT !.types = ObjSet(@, model.name, made.val)]
           IN IF CacheFails(st, "ttl", model.key) THEN Throw(st1, "CacheError")
              ELSE Ret([st1 EXCEPT !.cache = CacheTtl(@, model.key)],
                       [type |-> made.val, rebuilt |-> TRUE])
         ELSE IF CacheFails(st, "ttl", model.key) THEN Throw(st, "CacheError")
         ELSE Ret([st EXCEPT !.cache = CacheTtl(@, model.key)],
                  [type |-> type, rebuilt |-> FALSE])
  ELSE Bind(getType(st, model, <<>>, <<>>), LAMBDA r :
         IF ~r.ok THEN r ELSE Ret(r.st, [type |-> r.val, rebuilt |-> FALSE]))

\* reduce(graffitiModels, ...): the map of the types and the names rebuilt
RECURSIVE ModelsReduce(_, _, _, _)
ModelsReduce(st, graffitiModels, types, reResolveTypes) ==
  IF graffitiModels = <<>> THEN Ret(st, [types |-> types, reResolveTypes |-> reResolveTypes])
  ELSE LET model == Head(graffitiModels)
       IN Bind(TypeOfModel(st, model), LAMBDA r :
            IF ~r.ok THEN r
            ELSE Bind(ObjSet(types, model.name, r.val.type), LAMBDA more :
                   ModelsReduce(r.st, Tail(graffitiModels), more,
                                IF r.val.rebuilt THEN reResolveTypes \cup {r.val.type.name}
                                ELSE reResolveTypes)))

\* getTypes(graffitiModels)
getTypes(st, graffitiModels) ==
  Bind(ModelsReduce(st, graffitiModels, <<>>, {}), LAMBDA r :
    IF ~r.ok THEN r
    ELSE Ret(ResolveReferences(r.st, r.val.types, r.val.reResolveTypes, r.st.rr),
             r.val.types))

(***************************************************************************)
(* The models the types are synthesized from                               *)
(***************************************************************************)
\* a model, or the fields of a nested object: {key, name, fields}
Model(name, fields) == [key |-> name, name |-> name, fields |-> fields]

F_a == FieldDesc(<<"a">>, "String")
F_n == [FieldDesc(<<"n">>, "Number") EXCEPT !.nonNull = TRUE]
F_h == [FieldDesc(<<"h">>, "String") EXCEPT !.hidden = TRUE]
F_v == FieldDesc(<<"_", "_", "v">>, "Number")
F__id == FieldDesc(S__id, "ObjectID")
F_id == FieldDesc(S_id, "String")
F_x == FieldDesc(<<"x">>, "Mixed")
F_e == [FieldDesc(<<"e">>, "String") EXCEPT !.enumValues = << <<"x">>, <<"y">> >>]
F_l == [FieldDesc(<<"l">>, "Array") EXCEPT !.subtype = "String"]
\* an object in an object: s { a, h (hidden), t { n } }
F_s ==
  [FieldDesc(<<"s">>, "Object") EXCEPT
     !.fields = <<F_a, F_h, [FieldDesc(<<"t">>, "Object") EXCEPT !.fields = <<F_n, F_v>>]>>]
\* a list of objects of scalars: i [{ a, _id, n }]
F_i == [FieldDesc(<<"i">>, "Array") EXCEPT !.subtype = "Object", !.fields = <<F_a, F__id, F_n>>]
\* a list of objects that hold a list: j [{ a, l }]
F_j == [FieldDesc(<<"j">>, "Array") EXCEPT !.subtype = "Object", !.fields = <<F_a, F_l>>]
\* a list of objects that hold an enum: k [{ e }]
F_k == [FieldDesc(<<"k">>, "Array") EXCEPT !.subtype = "Object", !.fields = <<F_e>>]
\* an embedded model
F_m == [FieldDesc(<<"m">>, "Embedded") EXCEPT !.embeddedModel = Model(<<"M">>, <<F_a, F_v>>)]

\* an embedded model under a field named as a registered type is named
F_u == [FieldDesc(<<"U">>, "Embedded") EXCEPT !.embeddedModel = Model(<<"M">>, <<F_n>>)]

\* a second field of the embedded model of F_m
F_w == [FieldDesc(<<"w">>, "Embedded") EXCEPT !.embeddedModel = Model(<<"M">>, <<F_a, F_v>>)]

\* the fields that refer to no model, in the order a model declares them
PlainFields ==
  <<F__id, F_a, F_n, F_h, F_v, F_id, F_x, F_e, F_l, F_s, F_i, F_j, F_k, F_m, F_u>>

MaxFields == 2

S_U == <<"U">>
S_P == <<"P">>
S_Z == <<"Z">>

\* the models without a reference
PlainFieldLists ==
  { <<PlainFields[i]>> : i \in 1..Len(PlainFields) } \cup
  { <<F_a, F_n>>, <<F_a, F_v>>, <<F__id, F_a>>, <<F_id, F_a>>, <<F_h, F_s>>, <<F_s, F_m>>,
    <<F_l, F_i>>, <<F_a, F_j>>, <<F_e, F_x>>, <<F_m, F_u>>,
    <<F_m, F_w>>,
    <<F_a, F_h, F_s>>, <<F_s, F_i, F_m>>, <<F_a, F_e, F_l>> }

PlainModels == {Model(S_U, fs) : fs \in {l \in PlainFieldLists : Len(l) <= MaxFields}}

\* a singular and a plural reference to the model `to`
RefOne(key, to) == [FieldDesc(key, "ObjectID") EXCEPT !.reference = to]
RefMany(key, to) ==
  [FieldDesc(key, "Array") EXCEPT !.subtype = "ObjectID", !.reference = to]

\* the lists of models that refer to models
ReferringModelLists ==
  { <<Model(S_U, <<RefOne(<<"r">>, S_U), RefMany(<<"p">>, S_U)>>)>>,
    <<Model(S_U, <<F_a, RefOne(<<"r">>, S_U), RefMany(<<"p">>, S_U)>>)>>,
    <<Model(S_U, <<RefOne(<<"r">>, S_P)>>), Model(S_P, <<F_a, RefOne(<<"q">>, S_U)>>)>>,
    <<Model(S_U, <<RefMany(<<"p">>, S_P)>>), Model(S_P, <<RefMany(<<"q">>, S_U)>>)>>,
    <<Model(S_U, <<RefOne(<<"r">>, S_P), RefMany(<<"p">>, S_P)>>),
      Model(S_P, <<RefOne(<<"q">>, S_U), RefMany(<<"o">>, S_P)>>)>>,
    <<Model(S_U, <<[FieldDesc(<<"s">>, "Object") EXCEPT
                      !.fields = <<F_a, RefOne(<<"r">>, S_U)>>]>>)>>,
    <<Model(S_U, <<[FieldDesc(<<"s">>, "Object") EXCEPT
                      !.fields = <<RefMany(<<"p">>, S_U)>>]>>)>>,
    <<Model(S_U, <<F_a, RefOne(<<"r">>, S_Z)>>)>>,
    <<Model(S_U, <<F_a, [RefOne(<<"r">>, S_U) EXCEPT !.nonNull = TRUE]>>)>>,
    <<Model(S_U, <<RefMany(<<"p">>, S_Z)>>), Model(S_P, <<RefOne(<<"q">>, S_U)>>)>> }

ReferringModels ==
  { ms \in ReferringModelLists : \A i \in 1..Len(ms) : Len(ms[i].fields) <= MaxFields }

ModelLists == {<<m>> : m \in PlainModels} \cup ReferringModels

MaxContexts == 2
MaxCalls == 2

(***************************************************************************)
(* The calls                                                               *)
(***************************************************************************)
\* the state a call in context c starts from
StateOf(c) ==
  [objs |-> heap.objs, fobjs |-> heap.fobjs, inputs |-> heap.inputs,
   rfields |-> heap.rfields, types |-> contexts[c].types, rr |-> contexts[c].rr,
   inputBy |-> contexts[c].inputBy, nodeInterface |-> contexts[c].nodeInterface,
   useCache |-> contexts[c].useCache, cache |-> typeCache, fault |-> "none",
   faultKey |-> <<>>]

\* the state a call in context c leaves
Leaves(c, st) ==
  /\ heap' = [objs |-> st.objs, fobjs |-> st.fobjs, inputs |-> st.inputs,
              rfields |-> st.rfields]
  /\ contexts' = [contexts EXCEPT ![c] = [types |-> st.types, rr |-> st.rr,
                                          inputBy |-> st.inputBy,
                                          nodeInterface |-> st.nodeInterface,
                                          useCache |-> st.useCache,
                                          internal |-> contexts[c].internal]]
  /\ typeCache' = st.cache

\* the types, the contexts and the type cache as a call finds them
TypesFound ==
  [heap |-> heap, contexts |-> contexts, typeCache |-> typeCache, now |-> now]

\* what a call gave its caller, with what it found
Outcome(op, c, r) ==
  IF r.ok THEN [op |-> op, ctx |-> c, ok |-> TRUE, val |-> r.val, before |-> TypesFound]
  ELSE [op |-> op, ctx |-> c, ok |-> FALSE, err |-> r.err, before |-> TypesFound]

InitTypes ==
  /\ build = [spread |-> "arrayFrom", nanTie |-> "keep"]
  /\ resolveInfo = Null
  /\ filterOut = NotCalled
  /\ sortOut = NotCalled
  /\ HooksIdle
  /\ models \in ModelLists
  /\ heap = EmptyHeap
  /\ contexts = <<>>
  /\ typeCache = <<>>
  /\ now = 0
  /\ typeOut = <<>>
  /\ CachesIdle

\* createTypeContext(cache): with the default cache, or with null for no cache;
\* `internal` marks the contexts getSchema makes for itself, which no caller
\* can reach.  A context is created for a call still to be made.
CreateTypeContext ==
  /\ Len(contexts) < MaxContexts
  /\ Len(typeOut) + Len(cacheOut) < MaxCalls
  /\ \E useCache \in BOOLEAN :
       LET cid == Len(contexts) + 1
           viewer == NewObjectType([objs |-> heap.objs], S_Viewer, <<cid>>, 0, 0)
       IN /\ heap' = [heap EXCEPT !.objs = viewer.st.objs]
          /\ contexts' = Append(contexts,
               [types |-> <<[k |-> S_Viewer, v |-> viewer.val]>>, rr |-> <<>>,
                inputBy |-> <<>>, nodeInterface |-> cid, useCache |-> useCache,
                internal |-> FALSE])
  /\ UNCHANGED <<models, typeCache, now, typeOut>>
  /\ UNCHANGED compilerVars
  /\ UNCHANGED hookVars
  /\ UNCHANGED cacheVars

\* getType(graffitiModels, model) called on its own, as the tests call it
CallGetType ==
  /\ Len(typeOut) < MaxCalls
  /\ \E c \in 1..Len(contexts), i \in 1..Len(models) :
       \E r \in {getType(StateOf(c), models[i], <<>>, <<>>)} :
          /\ Leaves(c, r.st)
          /\ typeOut' = Append(typeOut, Outcome("getType", c, r))
  /\ UNCHANGED <<models, now>>
  /\ UNCHANGED compilerVars
  /\ UNCHANGED hookVars
  /\ UNCHANGED cacheVars

\* getTypes(graffitiModels)
CallGetTypes ==
  /\ Len(typeOut) < MaxCalls
  /\ \E c \in 1..Len(contexts) :
       \E r \in {getTypes(StateOf(c), models)} :
          /\ Leaves(c, r.st)
          /\ typeOut' = Append(typeOut, Outcome("getTypes", c, r))
  /\ UNCHANGED <<models, now>>
  /\ UNCHANGED compilerVars
  /\ UNCHANGED hookVars
  /\ UNCHANGED cacheVars

NextTypes == CreateTypeContext \/ CallGetType \/ CallGetTypes

SpecTypes == InitTypes /\ [][NextTypes]_vars

\* no call has met a type outside those the synthesizer builds
InModel == \A i \in 1..Len(typeOut) : typeOut[i].ok \/ typeOut[i].err # "OutOfModel"

(***************************************************************************)
(* What the claims say of the synthesized types                            *)
(***************************************************************************)
KeysOf(kv) == {kv[i].k : i \in 1..Len(kv)}

\* the declared fields that are neither marked hidden nor named with a leading `__`
VisibleFields(fields) ==
  SelectSeq(fields, LAMBDA f : ~f.hidden /\ ~StartsWithDunder(f.name))

\* <parent type name> + <field name with first letter capitalized>
ClaimedNestedName(parent, fieldName) ==
  parent \o <<toUpperCase(Head(fieldName))>> \o Tail(fieldName)

WithoutNonNull(type) == IF type.k = "nonnull" THEN type.ofType ELSE type

\* the object type `type` is named `name`, its fields are the visible ones of
\* `fields` and those of `extra`, and so on for the types nested in it
RECURSIVE ShapeAsDeclared(_, _, _, _)
ShapeAsDeclared(type, name, fields, extra) ==
  /\ type.k = "object"
  /\ heap.objs[type.id].name = name
  /\ LET fo == heap.fobjs[heap.objs[type.id].fobj]
         vis == VisibleFields(fields)
     IN /\ KeysOf(fo) = {vis[i].name : i \in 1..Len(vis)} \cup extra
        /\ \A i \in 1..Len(vis) :
             LET f == vis[i]
                 ft == WithoutNonNull(KvGet(fo, f.name).type)
             IN CASE f.name \in extra -> TRUE
                  [] f.type = "Object" ->
                       ShapeAsDeclared(ft, ClaimedNestedName(name, f.name), f.fields, {})
                  [] f.type = "Array" /\ f.subtype = "Object" ->
                       /\ ft.k = "list"
                       /\ ShapeAsDeclared(ft.ofType, ClaimedNestedName(name, f.name),
                                          f.fields, {})
                  [] f.type = "Embedded" ->
                       \/ ShapeAsDeclared(ft, f.embeddedModel.name,
                                          f.embeddedModel.fields, {})
                       \/ ft.k = "object" /\ ft.name = f.name
                  [] OTHER -> TRUE

NoCrossReferences == models \in {<<m>> : m \in PlainModels}

\* C12: for a model with no cross-references getType gives a type whose fields,
\* and those of every nested type, are exactly the declared fields that are
\* neither hidden nor named with a leading `__`, each nested type being named
\* by its parent's name and the capitalized field name.
C12_FieldSet ==
  \A i \in 1..Len(typeOut) :
    (NoCrossReferences /\ typeOut[i].op = "getType") =>
      /\ typeOut[i].ok
      /\ ShapeAsDeclared(typeOut[i].val, models[1].name, models[1].fields, {})

\* C12, of the calls that give a type: its fields are the visible declared
\* fields and, at depth 0, the synthesized `id`; the nested types are as
\* declared, but for an embedded model under the name of a registered type,
\* which is given that type.
C12_FieldSetWhenBuilt ==
  \A i \in 1..Len(typeOut) :
    (NoCrossReferences /\ typeOut[i].op = "getType" /\ typeOut[i].ok) =>
      ShapeAsDeclared(typeOut[i].val, models[1].name, models[1].fields, {S_id})

\* the object types getType has built or getTypes has rebuilt: all but the
\* Viewer type each context makes for itself
BuiltTypes == {i \in 1..Len(heap.objs) : heap.objs[i].name # S_Viewer}

HasNodeInterface(i) == heap.objs[i].interfaces # <<>>

\* the type's field map holds the synthesized non-null `id` field
HasGlobalId(i) ==
  LET fo == heap.fobjs[heap.objs[i].fobj]
  IN HasKey(fo, S_id) /\ KvGet(fo, S_id) = globalIdField

\* some context's registry holds the type
Registered(i) ==
  \E c \in 1..Len(contexts) :
    \E e \in 1..Len(contexts[c].types) : contexts[c].types[e].v.id = i

\* the registry of the context that built the root type i holds it, or a root
\* type of the same name built after it
RegisteredWhenBuilt(i) ==
  LET c == heap.objs[i].interfaces[1]
      name == heap.objs[i].name
  IN /\ HasKey(contexts[c].types, name)
     /\ KvGet(contexts[c].types, name).id >= i
     /\ heap.objs[KvGet(contexts[c].types, name).id].depth = 0

\* C13: a type has the Node interface, the synthesized non-null `id` field and
\* an entry in its context's registry if and only if it was built at depth 0;
\* a nested object type or an embedded model's type has none of the three.
C13_RootOnly ==
  \A i \in BuiltTypes :
    IF heap.objs[i].depth = 0
    THEN HasNodeInterface(i) /\ HasGlobalId(i) /\ RegisteredWhenBuilt(i)
    ELSE ~HasNodeInterface(i) /\ ~HasGlobalId(i) /\ ~Registered(i)

\* a model with a nested object, a list of objects or an embedded model has
\* been given its type: a root type and a type built below it exist
C13_Witness ==
  /\ \E i \in 1..Len(typeOut) : typeOut[i].ok
  /\ \E i \in BuiltTypes : heap.objs[i].depth = 0
  /\ \E i \in BuiltTypes : heap.objs[i].depth = 2
  /\ \E i \in BuiltTypes : heap.objs[i].depth = 1 /\ heap.objs[i].mongooseEmbedded

\* the latest call was a getTypes that returned its map
ReturnedTypes ==
  /\ typeOut # <<>>
  /\ typeOut[Len(typeOut)].op = "getTypes"
  /\ typeOut[Len(typeOut)].ok

\* in the field map fobj every reference the fields declare to a model of
\* `types` has that model's type of `types`, or a connection to it, and so on
\* in the nested objects
RECURSIVE ReferencesResolved(_, _, _)
ReferencesResolved(types, fobj, fields) ==
  \A i \in 1..Len(fields) :
    LET f == fields[i]
        ft == FieldOf(heap, KvGet(heap.fobjs[fobj], f.name)).type
    IN /\ (f.reference # <<>> /\ HasKey(types, f.reference)) =>
            /\ HasKey(heap.fobjs[fobj], f.name)
            /\ IF f.type = "Array"
               THEN ft.k = "connection" /\ ft.nodeType = KvGet(types, f.reference)
               ELSE ft = KvGet(types, f.reference)
       /\ f.type = "Object" =>
            /\ HasKey(heap.fobjs[fobj], f.name)
            /\ ft.k = "object"
            /\ ReferencesResolved(types, heap.objs[ft.id].fobj, f.fields)

\* C14: when getTypes returns, every singular reference to a model of the map
\* has that model's type object of the returned map, and every plural one is a
\* connection whose node type is that type object; no placeholder is left.
C14_ReferencesResolved ==
  ReturnedTypes =>
    LET types == typeOut[Len(typeOut)].val
    IN \A i \in 1..Len(models) :
         ReferencesResolved(types, heap.objs[KvGet(types, models[i].name).id].fobj,
                            models[i].fields)

\* C14, where it holds: the first call made in a run, for the references
\* declared at the top of a model
C14_FirstCallTopLevel ==
  (ReturnedTypes /\ Len(typeOut) = 1) =>
    LET types == typeOut[1].val
    IN \A i \in 1..Len(models) :
         ReferencesResolved(types, heap.objs[KvGet(types, models[i].name).id].fobj,
                            SelectSeq(models[i].fields, LAMBDA f : f.type # "Object"))

\* some field of `fields`, at any depth, refers to a model that is not one of
\* the model names
RECURSIVE RefersOutside(_, _)
RefersOutside(fields, modelNames) ==
  \E i \in 1..Len(fields) :
    \/ fields[i].reference # <<>> /\ fields[i].reference \notin modelNames
    \/ fields[i].type = "Object" /\ RefersOutside(fields[i].fields, modelNames)

MissingTarget ==
  \E i \in 1..Len(models) :
    RefersOutside(models[i].fields, {models[j].name : j \in 1..Len(models)})

\* a reference field whose type is undefined, or a connection to undefined
DanglingReference(field) ==
  \/ field.type.k = "undefined"
  \/ field.type.k = "connection" /\ field.type.nodeType.k = "undefined"

\* C15: getTypes fails when a recorded reference names a model that is not
\* among the synthesized types; the map it returns has no reference field of
\* undefined type and no connection to an undefined node type.
C15_MissingTargetFails ==
  (typeOut # <<>> /\ typeOut[Len(typeOut)].op = "getTypes") =>
    /\ MissingTarget => ~typeOut[Len(typeOut)].ok
    /\ typeOut[Len(typeOut)].ok =>
         \A i \in 1..Len(heap.rfields) : ~DanglingReference(heap.rfields[i])

\* the output fields getType has made: the entries of the field maps that are
\* not reference fields put there by getTypes
OutputFields ==
  UNION { { heap.fobjs[i][j].v : j \in { n \in 1..Len(heap.fobjs[i]) :
                                           "k" \notin DOMAIN heap.fobjs[i][n].v } } :
          i \in 1..Len(heap.fobjs) }

IsIdentityField(field) == field.name \in {S_id, S__id}

HasArgument(field, name, type) ==
  HasKey(field.args, name) /\ KvGet(field.args, name) = [name |-> name, type |-> type]

\* the eight comparison arguments typed to `scalar`, and `sort` and `sortOrder`
HasComparisonArguments(field, scalar) ==
  /\ \A name \in {S_eq, S_gt, S_gte, S_lt, S_lte, S_ne} : HasArgument(field, name, scalar)
  /\ \A name \in {S_in, S_nin} : HasArgument(field, name, GraphQLList(scalar))
  /\ HasArgument(field, S_sort, GraphQLSort)
  /\ HasArgument(field, S_sortOrder, GraphQLInt)

\* C19: every output field other than `id` and `_id` whose type, without its
\* non-null wrapper, is a scalar, an enum or a list of scalars has the eight
\* comparison arguments typed to the scalar (the element scalar of a list),
\* `sort` and `sortOrder`; `id` and `_id` have no arguments.
C19_ComparisonArguments ==
  \A field \in OutputFields :
    LET type == WithoutNonNull(field.type)
    IN IF IsIdentityField(field) THEN field.args = <<>>
       ELSE /\ type.k \in {"scalar", "enum"} => HasComparisonArguments(field, type)
            /\ (type.k = "list" /\ type.ofType.k = "scalar") =>
                 HasComparisonArguments(field, type.ofType)

\* C19, of the fields that are not lists: scalars and enums have the
\* arguments, `id` and `_id` none
C19_ScalarsAndEnums ==
  \A field \in OutputFields :
    LET type == WithoutNonNull(field.type)
    IN IF IsIdentityField(field) THEN field.args = <<>>
       ELSE type.k \in {"scalar", "enum"} => HasComparisonArguments(field, type)

\* the arguments a list field has: `all` and `size` alone
C19_ListsHaveAllAndSize ==
  \A field \in OutputFields :
    (~IsIdentityField(field) /\ WithoutNonNull(field.type).k = "list") =>
      KeysOf(field.args) = {S_all, S_size}

\* the input mirror a context keeps for an object type's name
MirrorOf(c, type) == KvGet(contexts[c].inputBy, type.name)

\* some context's mirror of the object type
IsMirrorOf(input, type) ==
  \E c \in 1..Len(contexts) :
    HasKey(contexts[c].inputBy, type.name) /\ MirrorOf(c, type) = input

IsListOfObjects(field) ==
  LET type == WithoutNonNull(field.type)
  IN type.k = "list" /\ type.ofType.k = "object"

\* C20: every field that is a list of objects has `all`, a list of the element
\* type's input mirror, `size`, an integer, and `elemMatch`, the input mirror.
C20_ListOfObjectArguments ==
  \A field \in OutputFields :
    IsListOfObjects(field) =>
      LET element == WithoutNonNull(field.type).ofType
      IN /\ HasKey(field.args, S_all)
         /\ KvGet(field.args, S_all).type.k = "list"
         /\ IsMirrorOf(KvGet(field.args, S_all).type.ofType, element)
         /\ HasArgument(field, S_size, GraphQLInt)
         /\ HasKey(field.args, S_elemMatch)
         /\ IsMirrorOf(KvGet(field.args, S_elemMatch).type, element)

\* C20 without `elemMatch`: what a list of objects has when its field was made
C20_AllAndSize ==
  \A field \in OutputFields :
    IsListOfObjects(field) =>
      LET element == WithoutNonNull(field.type).ofType
      IN /\ KeysOf(field.args) = {S_all, S_size}
         /\ KvGet(field.args, S_all).type.k = "list"
         /\ IsMirrorOf(KvGet(field.args, S_all).type.ofType, element)
         /\ HasArgument(field, S_size, GraphQLInt)

\* one mirror for each name in a context: no more input objects of one name
\* have been made than there are contexts
C20_OneMirrorPerName ==
  \A i \in 1..Len(heap.inputs) :
    Cardinality({j \in 1..Len(heap.inputs) : heap.inputs[j].name = heap.inputs[i].name})
      <= Len(contexts)

(***************************************************************************)
(* getModel, getSchema and the three caches                                *)
(***************************************************************************)
GModelRef(i) == [k |-> "gmodel", id |-> i]
SchemaRef(i) == [k |-> "schema", id |-> i]

NotCached == [k |-> "undefined"]

\* the mongoose model of a descriptor of the catalogue: its modelName, the name
\* its schema sets (none), its versionedName (none) and the fields extractPaths
\* reads from its schema's paths
MongooseModel(d) ==
  [modelName |-> d.key, schemaName |-> <<>>, versionedName |-> <<>>, fields |-> d.fields]

\* the versions a model is registered under: none, and a second one
Versions == {<<>>, <<"@", "2">>}

\* the field the second version of a model adds
F_z == FieldDesc(<<"z">>, "String")

\* the mongoose model of a version of the descriptor: the same modelName, the
\* versionedName of the version and the paths of that version's schema
VersionedModel(d, version) ==
  IF version = <<>> THEN MongooseModel(d)
  ELSE [MongooseModel(d) EXCEPT !.versionedName = d.key \o version,
                                !.fields = Append(d.fields, F_z)]

\* getModel(model) in a model context made with the cache (useCache) or with null
getModel(cs, useCache, fault, model) ==
  LET key == model.modelName
  IN IF useCache /\ fault = "get" THEN Throw(cs, "CacheError")
     ELSE
       LET gmodel == IF useCache THEN CacheGet(cs.modelCache, key) ELSE NotCached
       IN IF gmodel.k # "undefined"
          THEN IF fault = "ttl" THEN Throw(cs, "CacheError")
               ELSE Ret([cs EXCEPT !.modelCache = CacheTtl(@, key)], gmodel)
          ELSE
            LET name == IF model.schemaName # <<>> THEN model.schemaName ELSE key
                id == Len(cs.gmodels) + 1
                cs1 == [cs EXCEPT !.gmodels =
                          Append(@, [key |-> key, name |-> name, fields |-> model.fields])]
            IN IF ~useCache THEN Ret(cs1, GModelRef(id))
               ELSE IF fault = "set" THEN Throw(cs1, "CacheError")
               ELSE Ret([cs1 EXCEPT !.modelCache = CacheSet(@, key, GModelRef(id))],
                        GModelRef(id))

\* mongooseModels.map(getModel).reduce(...): the graffiti models by name
RECURSIVE getModels(_, _, _, _, _)
getModels(cs, useCache, fault, mongooseModels, acc) ==
  IF mongooseModels = <<>> THEN Ret(cs, acc)
  ELSE Bind(getModel(cs, useCache, fault, Head(mongooseModels)), LAMBDA r :
         IF ~r.ok THEN r
         ELSE Bind(ObjSet(acc, r.st.gmodels[r.val.id].name, r.val), LAMBDA more :
                getModels(r.st, useCache, fault, Tail(mongooseModels), more)))

\* getArguments(type) as it leaves the output type: a non-null field other
\* than `id` and `_id` is given its inner type
getArguments(st, type) ==
  LET fobj == st.objs[type.id].fobj
      stripped(e) ==
        IF "k" \in DOMAIN e.v \/ e.v.name \in {S__id, S_id} \/ e.v.type.k # "nonnull" THEN e
        ELSE [e EXCEPT !.v.type = e.v.type.ofType]
  IN IF fobj = 0 THEN st
     ELSE [st EXCEPT !.fobjs[fobj] = [i \in 1..Len(@) |-> stripped(@[i])]]

RECURSIVE ArgumentsOfAll(_, _)
ArgumentsOfAll(st, types) ==
  IF types = <<>> THEN st
  ELSE Bind(getArguments(st, Head(types).v), LAMBDA st1 : ArgumentsOfAll(st1, Tail(types)))

\* getFields(graffitiModels, {typeContext}): the types, and the root fields
\* made of them, which take the arguments of every type
getFields(st, graffitiModels) ==
  Bind(getTypes(st, graffitiModels), LAMBDA r :
    IF ~r.ok THEN r ELSE Ret(ArgumentsOfAll(r.st, r.val), r.val))

\* a cache handed in the options for this call: an empty NodeCache of the caller
OwnCache == [handle |-> "own"]

\* options.x || theDefault: the caller's cache when the option is truthy
UsesOwn(option) == Truthy(option)

RECURSIVE JoinHash(_)
JoinHash(ss) ==
  IF ss = <<>> THEN <<>>
  ELSE IF Len(ss) = 1 THEN Head(ss)
  ELSE Head(ss) \o <<"#">> \o JoinHash(Tail(ss))

\* stringHash(mongooseModels.map(m => m.versionedName || m.modelName).join('#')),
\* kept as the string it hashes
HashKey(mongooseModels) ==
  JoinHash([i \in 1..Len(mongooseModels) |->
              IF mongooseModels[i].versionedName # <<>>
              THEN mongooseModels[i].versionedName ELSE mongooseModels[i].modelName])

NoFault == [layer |-> "none", op |-> "none"]

FaultOf(fault, layer) == IF fault.layer = layer THEN fault.op ELSE "none"

\* the type context getSchema makes, and what getFields builds in it
FieldsOfSchema(S, options, fault, m) ==
  LET ownTypes == UsesOwn(options.typeCache)
      cid == Len(S.contexts) + 1
      viewer == NewObjectType([objs |-> S.objs], S_Viewer, <<cid>>, 0, 0)
      st == [objs |-> viewer.st.objs, fobjs |-> S.fobjs, inputs |-> S.inputs,
             rfields |-> S.rfields, types |-> <<[k |-> S_Viewer, v |-> viewer.val]>>,
             rr |-> <<>>, inputBy |-> <<>>, nodeInterface |-> cid, useCache |-> TRUE,
             cache |-> IF ownTypes THEN <<>> ELSE S.typeCache,
             fault |-> FaultOf(fault, "type"), faultKey |-> <<>>]
      graffitiModels == [i \in 1..Len(m.val) |-> m.st.gmodels[m.val[i].v.id]]
  IN Bind(getFields(st, graffitiModels), LAMBDA f :
       [f EXCEPT !.st =
          [S EXCEPT !.objs = f.st.objs, !.fobjs = f.st.fobjs, !.inputs = f.st.inputs,
                    !.rfields = f.st.rfields,
                    !.typeCache = IF ownTypes THEN @ ELSE f.st.cache,
                    !.contexts = Append(@, [types |-> f.st.types, rr |-> f.st.rr,
                                            inputBy |-> f.st.inputBy,
                                            nodeInterface |-> cid, useCache |-> TRUE,
                                            internal |-> TRUE])]])

\* the part of getSchema after a miss: graffiti models, fields, schema
BuildSchema(S, mongooseModels, options, fault, haskey) ==
  LET ownModels == UsesOwn(options.modelCache)
      ownSchemas == UsesOwn(options.schemaCache)
  IN Bind(getModels([gmodels |-> S.gmodels,
                     modelCache |-> IF ownModels THEN <<>> ELSE S.modelCache],
                    TRUE, FaultOf(fault, "model"), mongooseModels, <<>>),
          LAMBDA m :
     Bind([S EXCEPT !.gmodels = m.st.gmodels,
                    !.modelCache = IF ownModels THEN @ ELSE m.st.modelCache],
          LAMBDA S1 :
       IF ~m.ok THEN Throw(S1, m.err)
       ELSE Bind(FieldsOfSchema(S1, options, fault, m), LAMBDA f :
              IF ~f.ok THEN f
              ELSE LET id == Len(S.schemas) + 1
                       S3 == [f.st EXCEPT !.schemas =
                                Append(@, [types |-> f.val, models |-> m.val])]
                   IN IF FaultOf(fault, "schema") = "set" THEN Throw(S3, "CacheError")
                      ELSE Ret([S3 EXCEPT !.schemaCache =
                                  IF ownSchemas THEN @
                                  ELSE CacheSet(@, haskey, SchemaRef(id))],
                               SchemaRef(id)))))

\* getSchema(mongooseModels, options)
getSchema(S, mongooseModels, options, fault) ==
  LET haskey == HashKey(mongooseModels)
      ownSchemas == UsesOwn(options.schemaCache)
      cache == IF ownSchemas THEN <<>> ELSE S.schemaCache
  IN IF FaultOf(fault, "schema") = "get" THEN Throw(S, "CacheError")
     ELSE LET schema == CacheGet(cache, haskey)
          IN IF schema.k # "undefined"
             THEN IF FaultOf(fault, "schema") = "ttl" THEN Throw(S, "CacheError")
                  ELSE Ret([S EXCEPT !.schemaCache = CacheTtl(@, haskey)], schema)
             ELSE BuildSchema(S, mongooseModels, options, fault, haskey)

(***************************************************************************)
(* Calls through the caches, and the passing of time                       *)
(***************************************************************************)
MaxTime == 3

\* the models the cached calls are made with: one alone, and one that refers
\* to the next
CacheModelLists ==
  { <<Model(S_U, <<F_n, F_s>>)>>,
    <<Model(S_U, <<RefOne(<<"r">>, S_P)>>), Model(S_P, <<F_n>>)>> }

CacheOps == {"get", "set", "ttl"}

\* the key a handle's operation raises for: every key, or the last model's
FaultKeys == {<<>>} \cup (IF Len(models) > 1 THEN {models[Len(models)].key} ELSE {})

\* the cache operation that raises in a call, if one does
Faults == {NoFault} \cup [layer : {"model", "type", "schema"}, op : CacheOps]

NoOptions == [schemaCache |-> Undefined, modelCache |-> Undefined, typeCache |-> Undefined]

\* the options getSchema is called with: nothing, null for one layer or for
\* all, a cache of the caller's for the schemas or the models
OptionSets ==
  { NoOptions,
    [NoOptions EXCEPT !.schemaCache = Null],
    [NoOptions EXCEPT !.modelCache = Null],
    [NoOptions EXCEPT !.typeCache = Null],
    [schemaCache |-> Null, modelCache |-> Null, typeCache |-> Null],
    [NoOptions EXCEPT !.schemaCache = OwnCache],
    [NoOptions EXCEPT !.modelCache = OwnCache] }

\* the caches and the objects as a call finds them
AsFound ==
  [modelCache |-> modelCache, typeCache |-> typeCache, schemaCache |-> schemaCache,
   now |-> now, gmodels |-> Len(gmodels), schemas |-> Len(schemas),
   objs |-> Len(heap.objs)]

InitCache ==
  /\ build = [spread |-> "arrayFrom", nanTie |-> "keep"]
  /\ resolveInfo = Null
  /\ filterOut = NotCalled
  /\ sortOut = NotCalled
  /\ HooksIdle
  /\ models \in CacheModelLists
  /\ heap = EmptyHeap
  /\ contexts = <<>>
  /\ typeCache = <<>>
  /\ now = 0
  /\ typeOut = <<>>
  /\ CachesIdle

\* time passes between the calls; before the first call there is nothing in a
\* cache to age
Tick ==
  /\ cacheOut # <<>> \/ typeOut # <<>>
  /\ Len(cacheOut) < MaxCalls
  /\ now < MaxTime
  /\ now' = now + 1
  /\ UNCHANGED <<models, heap, contexts, typeCache, typeOut>>
  /\ UNCHANGED cacheVars
  /\ UNCHANGED compilerVars
  /\ UNCHANGED hookVars

\* getModel(model) on a model context made with the default cache or with null
CallGetModel ==
  /\ Len(cacheOut) < MaxCalls
  /\ \E useCache \in BOOLEAN, op \in {"none"} \cup CacheOps :
       \E r \in {getModel([gmodels |-> gmodels, modelCache |-> modelCache], useCache, op,
                          MongooseModel(models[1]))} :
          /\ gmodels' = r.st.gmodels
          /\ modelCache' = r.st.modelCache
          /\ cacheOut' = Append(cacheOut,
               [op |-> "getModel", useCache |-> useCache, fault |-> op, before |-> AsFound,
                ok |-> r.ok, val |-> IF r.ok THEN r.val ELSE r.err])
  /\ UNCHANGED <<schemas, schemaCache>>
  /\ UNCHANGED typeVars
  /\ UNCHANGED compilerVars
  /\ UNCHANGED hookVars

\* getTypes(graffitiModels) on a type context of the caller's
CallGetTypesCached ==
  /\ Len(cacheOut) < MaxCalls
  /\ \E c \in 1..Len(contexts), op \in {"none"} \cup CacheOps, key \in FaultKeys :
       /\ ~contexts[c].internal
       /\ op = "none" => key = <<>>
       /\ \E r \in {getTypes([StateOf(c) EXCEPT !.fault = op, !.faultKey = key], models)} :
             /\ Leaves(c, r.st)
             /\ cacheOut' = Append(cacheOut,
                  [op |-> "getTypes", ctx |-> c, useCache |-> contexts[c].useCache,
                   fault |-> op, faultKey |-> key, before |-> AsFound,
                   ok |-> r.ok, val |-> IF r.ok THEN r.val ELSE r.err])
  /\ UNCHANGED <<models, now, typeOut, gmodels, schemas, modelCache, schemaCache>>
  /\ UNCHANGED compilerVars
  /\ UNCHANGED hookVars

\* getSchema(mongooseModels, options)
CallGetSchema ==
  /\ Len(cacheOut) < MaxCalls
  /\ \E options \in OptionSets, fault \in Faults, version \in Versions :
       /\ fault # NoFault => options = NoOptions
       /\ version # <<>> => (options = NoOptions /\ fault = NoFault)
       /\ LET S == [objs |-> heap.objs, fobjs |-> heap.fobjs, inputs |-> heap.inputs,
                    rfields |-> heap.rfields, contexts |-> contexts,
                    typeCache |-> typeCache, gmodels |-> gmodels,
                    modelCache |-> modelCache, schemas |-> schemas,
                    schemaCache |-> schemaCache]
          IN \E r \in {getSchema(S, [i \in 1..Len(models) |->
                                        VersionedModel(models[i], version)],
                                   options, fault)} :
             /\ heap' = [objs |-> r.st.objs, fobjs |-> r.st.fobjs, inputs |-> r.st.inputs,
                         rfields |-> r.st.rfields]
             /\ contexts' = r.st.contexts
             /\ typeCache' = r.st.typeCache
             /\ gmodels' = r.st.gmodels
             /\ modelCache' = r.st.modelCache
             /\ schemas' = r.st.schemas
             /\ schemaCache' = r.st.schemaCache
             /\ cacheOut' = Append(cacheOut,
                  [op |-> "getSchema", options |-> options, fault |-> fault,
                   version |-> version, before |-> AsFound, ok |-> r.ok,
                   val |-> IF r.ok THEN r.val ELSE r.err])
  /\ UNCHANGED <<models, now, typeOut>>
  /\ UNCHANGED compilerVars
  /\ UNCHANGED hookVars

NextCache ==
  CreateTypeContext \/ Tick \/ CallGetModel \/ CallGetTypesCached \/ CallGetSchema

SpecCache == InitCache /\ [][NextCache]_vars

\* the calls stay within what the model covers
CacheInModel == \A i \in 1..Len(cacheOut) : cacheOut[i].ok \/ cacheOut[i].val = "CacheError"

(***************************************************************************)
(* C16: hit and expiry of the three caches                                 *)
(***************************************************************************)
LastCall == cacheOut[Len(cacheOut)]

\* the last call was op and the clock has not moved since
JustCalled(op) ==
  cacheOut # <<>> /\ LastCall.op = op /\ LastCall.before.now = now

Living(cache, key) == \E i \in 1..Len(cache) : cache[i].k = key /\ now <= cache[i].t

ExpiryOf(cache, key) == cache[CHOOSE i \in 1..Len(cache) : cache[i].k = key].t

\* a living entry is returned itself and lives a full TTL from now; without
\* one the value returned is stored under the key
HitAndExpiry(found, left, key, value) ==
  /\ HasKey(left, key)
  /\ ExpiryOf(left, key) = now + StdTTL
  /\ KvGet(left, key) = value
  /\ Living(found, key) => value = KvGet(found, key)

\* every call so far was made with the first version of the models
OneVersion ==
  \A i \in 1..Len(cacheOut) : cacheOut[i].op = "getSchema" => cacheOut[i].version = <<>>

\* C16, descriptor cache: getModel returns the living descriptor itself and
\* renews it; after expiry it builds an equal descriptor, the model being the
\* same, and stores it
C16_ModelLayer ==
  JustCalled("getModel") /\ LastCall.useCache /\ LastCall.ok =>
    LET found == LastCall.before.modelCache
        key == models[1].key
    IN /\ HitAndExpiry(found, modelCache, key, LastCall.val)
       /\ Living(found, key) => Len(gmodels) = LastCall.before.gmodels
       /\ (HasKey(found, key) /\ OneVersion) =>
            gmodels[LastCall.val.id] = gmodels[KvGet(found, key).id]

\* C16, type cache: getTypes returns the living types themselves
C16_TypeLayer ==
  JustCalled("getTypes") /\ LastCall.useCache /\ LastCall.ok =>
    \A i \in 1..Len(models) :
       HitAndExpiry(LastCall.before.typeCache, typeCache, models[i].key,
                    KvGet(LastCall.val, models[i].name))

\* C16, schema cache: getSchema returns the living schema itself
C16_SchemaLayer ==
  JustCalled("getSchema") /\ LastCall.options = NoOptions
                  /\ LastCall.ok =>
    LET found == LastCall.before.schemaCache
        key == HashKey([i \in 1..Len(models) |-> VersionedModel(models[i], LastCall.version)])
    IN /\ HitAndExpiry(found, schemaCache, key, LastCall.val)
       /\ Living(found, key) => Len(schemas) = LastCall.before.schemas

\* C16: in each of the descriptor, type and schema caches a lookup before
\* expiry returns the identical stored object and renews the entry for a full
\* TTL, and a lookup after expiry rebuilds the value and stores it under the
\* same key
C16_HitAndExpiry == C16_ModelLayer /\ C16_TypeLayer /\ C16_SchemaLayer

\* the cases of C16 happen: a hit and an expired entry in each layer
C16_ModelHit ==
  JustCalled("getModel") /\ LastCall.useCache /\ LastCall.ok
  /\ Living(LastCall.before.modelCache, models[1].key)
C16_ModelExpired ==
  JustCalled("getModel") /\ LastCall.useCache /\ LastCall.ok
  /\ HasKey(LastCall.before.modelCache, models[1].key)
  /\ ~Living(LastCall.before.modelCache, models[1].key)
C16_SchemaHit ==
  JustCalled("getSchema") /\ LastCall.options = NoOptions
  /\ LastCall.ok /\ Len(schemas) = LastCall.before.schemas
C16_SchemaExpired ==
  JustCalled("getSchema") /\ LastCall.options = NoOptions
  /\ LastCall.ok /\ LastCall.before.schemaCache # <<>>
  /\ Len(schemas) > LastCall.before.schemas

(***************************************************************************)
(* C17: a null cache                                                       *)
(***************************************************************************)
\* createModelContext(null) and createTypeContext(null): the default cache is
\* left as it was and the artifact is built
C17_NullContext ==
  /\ JustCalled("getModel") /\ ~LastCall.useCache /\ LastCall.ok =>
       /\ modelCache = LastCall.before.modelCache
       /\ Len(gmodels) > LastCall.before.gmodels
  /\ JustCalled("getTypes") /\ ~LastCall.useCache /\ LastCall.ok =>
       /\ typeCache = LastCall.before.typeCache
       /\ Len(heap.objs) > LastCall.before.objs

\* null in getSchema's options: the layer's default cache is left as it was
\* and the artifact is built, for the descriptors and the types whenever the
\* schema is built
C17_NullOption ==
  JustCalled("getSchema") /\ LastCall.ok =>
    LET built == Len(schemas) > LastCall.before.schemas
    IN /\ LastCall.options.schemaCache = Null =>
            built /\ schemaCache = LastCall.before.schemaCache
       /\ LastCall.options.modelCache = Null /\ built =>
            /\ modelCache = LastCall.before.modelCache
            /\ Len(gmodels) > LastCall.before.gmodels
       /\ LastCall.options.typeCache = Null /\ built =>
            typeCache = LastCall.before.typeCache

\* C17: with a null handle for the descriptor, type or schema cache, given in
\* getSchema's options or to createModelContext / createTypeContext, the layer
\* is neither read nor written, the default cache is not used in its place and
\* every call builds the artifact
C17_CacheDisable == C17_NullContext /\ C17_NullOption

\* the cases of C17_NullContext happen, with the default cache filled
C17_NullModelContext ==
  JustCalled("getModel") /\ ~LastCall.useCache /\ LastCall.ok
  /\ Living(LastCall.before.modelCache, models[1].key)
C17_NullTypeContext ==
  JustCalled("getTypes") /\ ~LastCall.useCache /\ LastCall.ok
  /\ Living(LastCall.before.typeCache, models[1].key)

(***************************************************************************)
(* C18: a cache operation that raises                                      *)
(***************************************************************************)
\* the call was made with a cache operation that raises when it is reached
Faulty(call) ==
  IF call.op = "getSchema" THEN call.fault # NoFault ELSE call.fault # "none"

\* C18: when get, set or ttl of a cache handle raises, getModel, getTypes and
\* getSchema take it for a miss, build the artifact and return it; the failure
\* never reaches the caller
C18_FailureIsMiss ==
  \A i \in 1..Len(cacheOut) : Faulty(cacheOut[i]) => cacheOut[i].ok

\* a call fails only by the cache operation that raised
C18_OnlyCacheFailures ==
  \A i \in 1..Len(cacheOut) :
     ~cacheOut[i].ok => Faulty(cacheOut[i]) /\ cacheOut[i].val = "CacheError"

(***************************************************************************)
(* C21: what the type cache holds between the calls                        *)
(***************************************************************************)
\* the field map fobj, or one nested in it, still has the field getType made
\* for a declared reference: an ID or a list of ID, no reference field
RECURSIVE HasPlaceholder(_, _)
HasPlaceholder(fobj, fields) ==
  \E i \in 1..Len(fields) :
    LET f == fields[i]
        entry == KvGet(heap.fobjs[fobj], f.name)
        inner == IF FieldOf(heap, entry).type.k = "list" THEN FieldOf(heap, entry).type.ofType
                 ELSE WithoutNonNull(FieldOf(heap, entry).type)
    IN /\ ~IsHidden(f, f.name)
       /\ HasKey(heap.fobjs[fobj], f.name)
       /\ \/ f.reference # <<>> /\ "k" \notin DOMAIN entry
          \/ /\ f.type = "Object" \/ (f.type = "Array" /\ f.subtype = "Object")
             /\ inner.k = "object"
             /\ HasPlaceholder(heap.objs[inner.id].fobj, f.fields)

\* the types the type cache holds for the models, alive or not
CachedTypes ==
  { [model |-> models[i], type |-> KvGet(typeCache, models[i].key)] :
      i \in {j \in 1..Len(models) : HasKey(typeCache, models[j].key)} }

\* C21: whenever control is outside getTypes, after it returned or after it was
\* aborted by an error, every type the type cache holds has its reference
\* fields resolved; none still has the placeholder of a reference
C21_CacheHoldsResolvedTypes ==
  \A c \in CachedTypes : ~HasPlaceholder(heap.objs[c.type.id].fobj, c.model.fields)

\* C21, where it holds: when no call was aborted
C21_ResolvedUnlessAborted ==
  (\A i \in 1..Len(cacheOut) : cacheOut[i].ok) => C21_CacheHoldsResolvedTypes

\* a later getTypes returns a type with a placeholder that it took from the cache
C21_PlaceholderServed ==
  /\ JustCalled("getTypes") /\ LastCall.ok
  /\ \E i \in 1..Len(models) :
       /\ HasKey(LastCall.before.typeCache, models[i].key)
       /\ HasPlaceholder(heap.objs[KvGet(LastCall.val, models[i].name).id].fobj,
                         models[i].fields)

(***************************************************************************)
(* C22: a cached type and the node interface of the calling context        *)
(***************************************************************************)
LastTypeCall == typeOut[Len(typeOut)]

\* the latest call was a getTypes that returned, in a context with the cache
ReturnedWithCache ==
  ReturnedTypes /\ contexts[LastTypeCall.ctx].useCache

\* the models the latest call was made with
CalledWith == IF "of" \in DOMAIN LastTypeCall THEN LastTypeCall.of ELSE models

\* the type the call found in the cache for the model
FoundInCache(model) == KvGet(LastTypeCall.before.typeCache, model.key)

\* the cache had a living entry for the model when the call was made
WasCached(model) ==
  \E i \in 1..Len(LastTypeCall.before.typeCache) :
     /\ LastTypeCall.before.typeCache[i].k = model.key
     /\ LastTypeCall.before.now <= LastTypeCall.before.typeCache[i].t

\* the call found the model's type in the cache, built for another node interface
ServedWithMismatch(model) ==
  /\ WasCached(model)
  /\ LastTypeCall.before.heap.objs[FoundInCache(model).id].interfaces[1]
       # contexts[LastTypeCall.ctx].nodeInterface

\* the call found the model's type in the cache, built for its own node interface
ServedWithMatch(model) ==
  /\ WasCached(model)
  /\ LastTypeCall.before.heap.objs[FoundInCache(model).id].interfaces[1]
       = contexts[LastTypeCall.ctx].nodeInterface

\* the type object and its field map are as the call found them
LeftAsFound(type) ==
  LET was == LastTypeCall.before.heap
  IN /\ heap.objs[type.id] = was.objs[type.id]
     /\ was.objs[type.id].fobj # 0 =>
          LET fobj == was.objs[type.id].fobj
          IN /\ heap.fobjs[fobj] = was.fobjs[fobj]
             /\ \A i \in 1..Len(was.fobjs[fobj]) :
                  FieldOf(heap, heap.fobjs[fobj][i].v) = FieldOf(was, was.fobjs[fobj][i].v)

\* C22: a type found in the cache with another context's node interface is
\* returned and registered, under the model's name, as a newly made type with
\* the calling context's node interface, the cached object keeping its
\* interface and its field map; with the same node interface the cached
\* object itself is returned
C22_CacheIdentity ==
  ReturnedWithCache =>
    \A i \in 1..Len(CalledWith) :
      LET model == CalledWith[i]
          given == KvGet(LastTypeCall.val, model.name)
          c == LastTypeCall.ctx
      IN /\ ServedWithMismatch(model) =>
              /\ given.id > Len(LastTypeCall.before.heap.objs)
              /\ heap.objs[given.id].interfaces = <<contexts[c].nodeInterface>>
              /\ KvGet(contexts[c].types, model.name) = given
              /\ LeftAsFound(FoundInCache(model))
         /\ ServedWithMatch(model) => given = FoundInCache(model)

\* a getTypes served a model that refers to another from the cache another
\* context filled
C22_Witness ==
  /\ ReturnedWithCache
  /\ Len(models) = 2
  /\ \A i \in 1..Len(models) : ServedWithMismatch(models[i])

\* the other case of C22 happens too
C22_MatchServed ==
  ReturnedWithCache /\ \E i \in 1..Len(models) : ServedWithMatch(models[i])

(***************************************************************************)
(* getTypes called with some of the models, over time: what one call       *)
(* leaves in the type cache and in a context meets the next call           *)
(***************************************************************************)
MaxListCalls == 4

\* a model that refers to the next
SharedModels == <<Model(S_U, <<RefOne(<<"r">>, S_P)>>), Model(S_P, <<F_n>>)>>

\* the models a call is made with: all of them, or one
ModelsOfCall == {models} \cup {<<models[i]>> : i \in 1..Len(models)}

InitLists ==
  /\ build = [spread |-> "arrayFrom", nanTie |-> "keep"]
  /\ resolveInfo = Null
  /\ filterOut = NotCalled
  /\ sortOut = NotCalled
  /\ HooksIdle
  /\ models = SharedModels
  /\ heap = EmptyHeap
  /\ contexts = <<>>
  /\ typeCache = <<>>
  /\ now = 0
  /\ typeOut = <<>>
  /\ CachesIdle

\* createTypeContext() on the default cache, made before the calls
CreateCachedContext ==
  /\ Len(contexts) < MaxContexts
  /\ typeOut = <<>>
  /\ LET cid == Len(contexts) + 1
         viewer == NewObjectType([objs |-> heap.objs], S_Viewer, <<cid>>, 0, 0)
     IN /\ heap' = [heap EXCEPT !.objs = viewer.st.objs]
        /\ contexts' = Append(contexts,
             [types |-> <<[k |-> S_Viewer, v |-> viewer.val]>>, rr |-> <<>>,
              inputBy |-> <<>>, nodeInterface |-> cid, useCache |-> TRUE,
              internal |-> FALSE])
  /\ UNCHANGED <<models, typeCache, now, typeOut>>
  /\ UNCHANGED compilerVars
  /\ UNCHANGED hookVars
  /\ UNCHANGED cacheVars

\* getTypes(graffitiModels) with the models the caller picks
CallGetTypesOf ==
  /\ Len(typeOut) < MaxListCalls
  /\ \E c \in 1..Len(contexts), ms \in ModelsOfCall :
       \E r \in {getTypes(StateOf(c), ms)} :
          /\ Leaves(c, r.st)
          /\ typeOut' = Append(typeOut,
               [op |-> "getTypes", ctx |-> c, ok |-> r.ok, of |-> ms,
                val |-> IF r.ok THEN r.val ELSE r.err, before |-> TypesFound])
  /\ UNCHANGED <<models, now>>
  /\ UNCHANGED compilerVars
  /\ UNCHANGED hookVars
  /\ UNCHANGED cacheVars

NextLists == CreateCachedContext \/ Tick \/ CallGetTypesOf

SpecLists == InitLists /\ [][NextLists]_vars

(***************************************************************************)
(* C23: getTypes again on the same context                                 *)
(***************************************************************************)
\* the latest getTypes found every model it was called with in the cache,
\* built for the node interface of its own context
AllServedWithMatch ==
  ReturnedWithCache /\ \A i \in 1..Len(CalledWith) : ServedWithMatch(CalledWith[i])

\* C23: when a second getTypes on a context is served every model from the
\* cache with the matching node interface, no reference is resolved again:
\* the field maps and the reference fields are as the call found them, every
\* singular reference has its target type and every plural one is a
\* connection to its target type
C23_RepeatKeepsReferences ==
  AllServedWithMatch =>
    /\ heap.fobjs = LastTypeCall.before.heap.fobjs
    /\ heap.rfields = LastTypeCall.before.heap.rfields
    /\ \A i \in 1..Len(CalledWith) :
         ReferencesResolved(LastTypeCall.val,
                            heap.objs[KvGet(LastTypeCall.val, CalledWith[i].name).id].fobj,
                            SelectSeq(CalledWith[i].fields, LAMBDA f : f.type # "Object"))

\* C23, where it holds: the models that refer to no model
C23_RepeatKeepsPlainTypes ==
  (AllServedWithMatch /\ NoCrossReferences) =>
    /\ heap.fobjs = LastTypeCall.before.heap.fobjs
    /\ heap.rfields = LastTypeCall.before.heap.rfields

\* a plural reference is a connection to undefined after the second call
C23_ConnectionLost ==
  /\ AllServedWithMatch
  /\ \E i \in 1..Len(heap.rfields) :
       /\ heap.rfields[i].connection
       /\ DanglingReference(heap.rfields[i])
       /\ ~DanglingReference(LastTypeCall.before.heap.rfields[i])

(***************************************************************************)
(* C24: a recorded reference whose path is not in the type                 *)
(***************************************************************************)
\* the dotted path leads to a field of the declared fields, through the
\* nested objects and the lists of nested objects
RECURSIVE DeclaredAt(_, _)
DeclaredAt(fields, path) ==
  \E i \in 1..Len(fields) :
    /\ ~IsHidden(fields[i], fields[i].name)
    /\ fields[i].name = Head(path)
    /\ \/ Len(path) = 1
       \/ /\ Len(path) > 1
          /\ fields[i].type = "Object"
               \/ (fields[i].type = "Array" /\ fields[i].subtype = "Object")
          /\ DeclaredAt(fields[i].fields, Tail(path))

\* the context has recorded, for the model, a reference under a path with a
\* segment that the model's type does not have
HasAbsentPath(c, model) ==
  /\ HasKey(contexts[c].rr, model.name)
  /\ \E i \in 1..Len(KvGet(contexts[c].rr, model.name)) :
       ~DeclaredAt(model.fields, SplitDots(KvGet(contexts[c].rr, model.name)[i].k, <<>>))

\* the field map, and those nested in it, have no field but the declared ones
RECURSIVE OnlyDeclaredFields(_, _, _)
OnlyDeclaredFields(fobj, fields, extra) ==
  LET vis == VisibleFields(fields)
  IN /\ KeysOf(heap.fobjs[fobj]) \subseteq {vis[i].name : i \in 1..Len(vis)} \cup extra
     /\ \A i \in 1..Len(vis) :
          (vis[i].type = "Object" \/ (vis[i].type = "Array" /\ vis[i].subtype = "Object")) =>
            LET type == FieldOf(heap, KvGet(heap.fobjs[fobj], vis[i].name)).type
                inner == IF type.k = "list" THEN type.ofType ELSE WithoutNonNull(type)
            IN inner.k = "object" =>
                 OnlyDeclaredFields(heap.objs[inner.id].fobj, vis[i].fields, {})

\* C24: when a segment of a recorded reference's dotted path is not in the
\* owning type's field maps, resolving the reference changes nothing: no field
\* is added or replaced in the owning type or its nested types, and no error
\* is raised
C24_AbsentSegmentIsNoOp ==
  (typeOut # <<>> /\ LastTypeCall.op = "getTypes" /\ Len(typeOut) = 1) =>
    \A i \in 1..Len(CalledWith) :
      HasAbsentPath(LastTypeCall.ctx, CalledWith[i]) =>
        /\ LastTypeCall.ok
        /\ OnlyDeclaredFields(heap.objs[KvGet(LastTypeCall.val, CalledWith[i].name).id].fobj,
                              CalledWith[i].fields, {S_id})

\* C24, the part that holds: no error is raised
C24_AbsentSegmentNoError ==
  (typeOut # <<>> /\ LastTypeCall.op = "getTypes") =>
    \A i \in 1..Len(CalledWith) :
      HasAbsentPath(LastTypeCall.ctx, CalledWith[i]) => LastTypeCall.ok

\* a first getTypes has resolved a reference recorded under an absent path
C24_AbsentPathResolved ==
  /\ typeOut # <<>> /\ LastTypeCall.op = "getTypes" /\ Len(typeOut) = 1
  /\ \E i \in 1..Len(CalledWith) : HasAbsentPath(LastTypeCall.ctx, CalledWith[i])

\* the types without an absent path have only the declared fields after a
\* first getTypes
C24_DeclaredPathsAddNothing ==
  (ReturnedTypes /\ Len(typeOut) = 1) =>
    \A i \in 1..Len(CalledWith) :
      ~HasAbsentPath(LastTypeCall.ctx, CalledWith[i]) =>
        OnlyDeclaredFields(heap.objs[KvGet(LastTypeCall.val, CalledWith[i].name).id].fobj,
                           CalledWith[i].fields, {S_id})

(***************************************************************************)
(* C25: a singular reference                                               *)
(***************************************************************************)
\* in the field map fobj, and in those nested in it, every declared singular
\* reference to a model of `types` is a field of that model's type, and with
\* `wrapped` of its non-null wrapper when the declared field is non-null
RECURSIVE SingularResolved(_, _, _, _)
SingularResolved(types, fobj, fields, wrapped) ==
  \A i \in 1..Len(fields) :
    LET f == fields[i]
        type == FieldOf(heap, KvGet(heap.fobjs[fobj], f.name)).type
        inner == IF type.k = "list" THEN type.ofType ELSE WithoutNonNull(type)
    IN ~IsHidden(f, f.name) =>
         /\ (f.reference # <<>> /\ f.type = "ObjectID" /\ HasKey(types, f.reference)) =>
              /\ HasKey(heap.fobjs[fobj], f.name)
              /\ type = IF wrapped /\ f.nonNull THEN GraphQLNonNull(KvGet(types, f.reference))
                        ELSE KvGet(types, f.reference)
         /\ (f.type = "Object" \/ (f.type = "Array" /\ f.subtype = "Object")) =>
              /\ HasKey(heap.fobjs[fobj], f.name)
              /\ inner.k = "object"
              /\ SingularResolved(types, heap.objs[inner.id].fobj, f.fields, wrapped)

\* the first call made in a run was a getTypes that returned
FirstReturnedTypes == ReturnedTypes /\ Len(typeOut) = 1

\* C25: an ObjectID field with a reference is replaced, at its dotted path, by
\* a field of the target model's type, of the non-null wrapper of that type
\* when the declared field is non-null
C25_SingularReference ==
  FirstReturnedTypes =>
    \A i \in 1..Len(models) :
      SingularResolved(typeOut[1].val, heap.objs[KvGet(typeOut[1].val, models[i].name).id].fobj,
                       models[i].fields, TRUE)

\* C25, as the code has it: the field has the target type itself, whether the
\* declared field is non-null or not
C25_SingularReferenceBare ==
  FirstReturnedTypes =>
    \A i \in 1..Len(models) :
      SingularResolved(typeOut[1].val, heap.objs[KvGet(typeOut[1].val, models[i].name).id].fobj,
                       models[i].fields, FALSE)

\* a first getTypes has resolved a singular reference in a nested object, and
\* another a non-null one
C25_NestedResolved ==
  /\ FirstReturnedTypes
  /\ \E i \in 1..Len(models) : \E j \in 1..Len(models[i].fields) :
       /\ models[i].fields[j].type = "Object"
       /\ \E k \in 1..Len(models[i].fields[j].fields) :
            models[i].fields[j].fields[k].reference # <<>>
            /\ models[i].fields[j].fields[k].type = "ObjectID"
C25_NonNullResolved ==
  /\ FirstReturnedTypes
  /\ \E i \in 1..Len(models) : \E j \in 1..Len(models[i].fields) :
       models[i].fields[j].reference # <<>> /\ models[i].fields[j].nonNull

(***************************************************************************)
(* C26: a plural reference                                                 *)
(***************************************************************************)
\* in the field map fobj, and in those nested in it, every declared list of
\* scalars with a reference to a model of `types` is a connection with a
\* count, whose node type is that model's type
RECURSIVE PluralResolved(_, _, _)
PluralResolved(types, fobj, fields) ==
  \A i \in 1..Len(fields) :
    LET f == fields[i]
        type == FieldOf(heap, KvGet(heap.fobjs[fobj], f.name)).type
        inner == IF type.k = "list" THEN type.ofType ELSE WithoutNonNull(type)
    IN ~IsHidden(f, f.name) =>
         /\ (f.reference # <<>> /\ f.type = "Array" /\ f.subtype # "Object"
               /\ HasKey(types, f.reference)) =>
              /\ HasKey(heap.fobjs[fobj], f.name)
              /\ type.k = "connection"
              /\ type.nodeType = KvGet(types, f.reference)
              /\ type.count = GraphQLFloat
         /\ (f.type = "Object" \/ (f.type = "Array" /\ f.subtype = "Object")) =>
              /\ HasKey(heap.fobjs[fobj], f.name)
              /\ inner.k = "object"
              /\ PluralResolved(types, heap.objs[inner.id].fobj, f.fields)

\* C26: after the resolution pass every list of scalars with a reference,
\* declared at the root of a model or in a nested object, is at its own dotted
\* path a connection with a `count` whose node type is the target model's
\* type, and no field is added or replaced at another path
C26_PluralReference ==
  FirstReturnedTypes =>
    \A i \in 1..Len(models) :
      LET fobj == heap.objs[KvGet(typeOut[1].val, models[i].name).id].fobj
      IN /\ PluralResolved(typeOut[1].val, fobj, models[i].fields)
         /\ OnlyDeclaredFields(fobj, models[i].fields, {S_id})

\* C26, where it holds: the plural references declared at the root of a model
C26_PluralAtRoot ==
  FirstReturnedTypes =>
    \A i \in 1..Len(models) :
      PluralResolved(typeOut[1].val, heap.objs[KvGet(typeOut[1].val, models[i].name).id].fobj,
                     SelectSeq(models[i].fields, LAMBDA f : f.type # "Object"))

\* a first getTypes has resolved a plural reference declared at the root
C26_RootPluralResolved ==
  /\ FirstReturnedTypes
  /\ \E i \in 1..Len(models) : \E j \in 1..Len(models[i].fields) :
       /\ models[i].fields[j].reference \in {models[k].name : k \in 1..Len(models)}
       /\ models[i].fields[j].type = "Array"

(***************************************************************************)
(* C27: the type of an embedded model                                      *)
(***************************************************************************)
\* the type the latest call gave for the model
TypeGiven(model) ==
  IF LastTypeCall.op = "getType" THEN LastTypeCall.val
  ELSE KvGet(LastTypeCall.val, model.name)

\* the Embedded fields of the model that the type shows
EmbeddedFields(model) ==
  SelectSeq(VisibleFields(model.fields), LAMBDA f : f.type = "Embedded")

\* the latest call built a type from a model with two fields of one embedded model
TwoFieldsOfOneEmbedded(model) ==
  /\ typeOut # <<>> /\ LastTypeCall.ok
  /\ LastTypeCall.op = "getType" => LastTypeCall.val.name = model.name
  /\ \E i, j \in 1..Len(EmbeddedFields(model)) :
       i # j /\ EmbeddedFields(model)[i].embeddedModel = EmbeddedFields(model)[j].embeddedModel

\* C27: within one run all Embedded fields of the same embedded model have the
\* very same type object, and the type of an embedded model is made at most
\* once
C27_EmbeddedTypeShared ==
  \A m \in 1..Len(models) :
    TwoFieldsOfOneEmbedded(models[m]) =>
      LET fs == EmbeddedFields(models[m])
          fobj == heap.objs[TypeGiven(models[m]).id].fobj
          made == {i \in (Len(LastTypeCall.before.heap.objs) + 1)..Len(heap.objs) :
                     heap.objs[i].mongooseEmbedded}
      IN /\ \A i, j \in 1..Len(fs) :
              fs[i].embeddedModel = fs[j].embeddedModel =>
                WithoutNonNull(KvGet(heap.fobjs[fobj], fs[i].name).type)
                  = WithoutNonNull(KvGet(heap.fobjs[fobj], fs[j].name).type)
         /\ \A i, j \in made : heap.objs[i].name = heap.objs[j].name => i = j

\* every Embedded field has an object type marked mongooseEmbedded, named as
\* its embedded model or as the field
C27_EmbeddedTypeMarked ==
  \A m \in 1..Len(models) :
    (typeOut # <<>> /\ LastTypeCall.ok
       /\ (LastTypeCall.op = "getType" => LastTypeCall.val.name = models[m].name)) =>
      \A i \in 1..Len(EmbeddedFields(models[m])) :
        LET f == EmbeddedFields(models[m])[i]
            type == WithoutNonNull(
                      KvGet(heap.fobjs[heap.objs[TypeGiven(models[m]).id].fobj], f.name).type)
        IN /\ type.k = "object"
           /\ heap.objs[type.id].mongooseEmbedded
           /\ type.name \in {f.embeddedModel.name, f.name}

(***************************************************************************)
(* C28: the types reachable from a map served from the cache               *)
(***************************************************************************)
\* the root type is one of the map `types` and implements the node interface
\* of context c
IsOwnRoot(types, c, type) ==
  /\ \E i \in 1..Len(types) : types[i].v = type
  /\ heap.objs[type.id].interfaces = <<contexts[c].nodeInterface>>

\* every root type that a field of the field map fobj, or of a nested object,
\* has as its type or as the node type of its connection is a root of c
RECURSIVE OwnGraph(_, _, _)
OwnGraph(types, c, fobj) ==
  fobj # 0 =>
    \A i \in 1..Len(heap.fobjs[fobj]) :
      LET type == WithoutNonNull(FieldOf(heap, heap.fobjs[fobj][i].v).type)
          target == IF type.k = "connection" THEN type.nodeType
                    ELSE IF type.k = "list" THEN type.ofType ELSE type
      IN target.k = "object" =>
           IF heap.objs[target.id].depth = 0
           THEN IsOwnRoot(types, c, target)
           ELSE OwnGraph(types, c, heap.objs[target.id].fobj)

\* the latest getTypes, on a context with the cache, found every model in the
\* cache with another node interface, one of them with a reference
ServedFromEarlierContext ==
  /\ ReturnedWithCache
  /\ \A i \in 1..Len(models) : ServedWithMismatch(models[i])
  /\ \E i \in 1..Len(models) : \E j \in 1..Len(models[i].fields) :
       models[i].fields[j].reference # <<>>

\* C28: when a new context is served from the cache an earlier context
\* filled, every root type reachable from the returned map through reference
\* fields and connection node types is a type of the returned map with the
\* calling context's node interface
C28_OwnGraphFromCache ==
  ServedFromEarlierContext =>
    \A i \in 1..Len(LastTypeCall.val) :
      /\ IsOwnRoot(LastTypeCall.val, LastTypeCall.ctx, LastTypeCall.val[i].v)
      /\ OwnGraph(LastTypeCall.val, LastTypeCall.ctx,
                  heap.objs[LastTypeCall.val[i].v.id].fobj)

\* C28, where it holds: the types of the returned map themselves implement
\* the calling context's node interface
C28_OwnRootsFromCache ==
  ServedFromEarlierContext =>
    \A i \in 1..Len(LastTypeCall.val) :
      IsOwnRoot(LastTypeCall.val, LastTypeCall.ctx, LastTypeCall.val[i].v)

\* the first getTypes of a run returns a graph of its own context
C28_OwnGraphWhenBuilt ==
  FirstReturnedTypes =>
    \A i \in 1..Len(typeOut[1].val) :
      /\ IsOwnRoot(typeOut[1].val, typeOut[1].ctx, typeOut[1].val[i].v)
      /\ OwnGraph(typeOut[1].val, typeOut[1].ctx, heap.objs[typeOut[1].val[i].v.id].fobj)

(***************************************************************************)
(* C29: what getArguments leaves of the output type                        *)
(***************************************************************************)
\* the fields declared non-null, other than references, are non-null in the
\* field map fobj: those of the map itself with `top`, those of the objects
\* nested in it with `nested`
RECURSIVE NonNullKept(_, _, _, _)
NonNullKept(fobj, fields, top, nested) ==
  \A i \in 1..Len(fields) :
    LET f == fields[i]
        type == FieldOf(heap, KvGet(heap.fobjs[fobj], f.name)).type
    IN (~IsHidden(f, f.name) /\ HasKey(heap.fobjs[fobj], f.name)) =>
         /\ (top /\ f.nonNull /\ f.reference = <<>>) => type.k = "nonnull"
         /\ (nested /\ f.type = "Object" /\ WithoutNonNull(type).k = "object") =>
              NonNullKept(heap.objs[WithoutNonNull(type).id].fobj, f.fields, TRUE, TRUE)

\* the types of the schemas getSchema has built, each with its model
SchemaTypes ==
  { [model |-> models[i], type |-> KvGet(schemas[s].types, models[i].name)] :
      s \in 1..Len(schemas), i \in 1..Len(models) }

\* C29: the output types of a schema, whose arguments getFields has derived,
\* have the field types getType gave them: a field declared non-null is
\* non-null
C29_ArgumentsKeepTypes ==
  \A c \in SchemaTypes :
    NonNullKept(heap.objs[c.type.id].fobj, c.model.fields, TRUE, TRUE)

\* C29, where it holds: the fields of the nested objects, which getArguments
\* does not visit, are non-null as declared
C29_NestedTypesKept ==
  \A c \in SchemaTypes :
    NonNullKept(heap.objs[c.type.id].fobj, c.model.fields, FALSE, TRUE)

\* as long as no getSchema was called, the cached types are as declared
C29_KeptByGetTypes ==
  (\A i \in 1..Len(cacheOut) : cacheOut[i].op # "getSchema") =>
    \A c \in CachedTypes :
      NonNullKept(heap.objs[c.type.id].fobj, c.model.fields, TRUE, TRUE)

\* a schema was built of a model with a non-null field, at the top and in a
\* nested object
C29_NonNullInSchema ==
  \E c \in SchemaTypes :
    /\ \E i \in 1..Len(c.model.fields) : c.model.fields[i].nonNull
    /\ \E i \in 1..Len(c.model.fields) : c.model.fields[i].type = "Object"

(***************************************************************************)
(* C30: a model registered again under another versionedName               *)
(***************************************************************************)
\* getSchema has returned, and an earlier getSchema, at most a TTL before it,
\* returned for another version of the models, all on the default caches
VersionChanged ==
  /\ cacheOut # <<>> /\ LastCall.op = "getSchema" /\ LastCall.ok
  /\ LastCall.options = NoOptions
  /\ \E i \in 1..(Len(cacheOut) - 1) :
       /\ cacheOut[i].op = "getSchema" /\ cacheOut[i].ok
       /\ cacheOut[i].options = NoOptions
       /\ cacheOut[i].version # LastCall.version
       /\ LastCall.before.now <= cacheOut[i].before.now + StdTTL

\* the descriptor and the output type of the schema, for the model
DescriptorOf(schema, model) == gmodels[KvGet(schemas[schema.id].models, model.name).id]
FieldMapOf(schema, model) ==
  heap.fobjs[heap.objs[KvGet(schemas[schema.id].types, model.name).id].fobj]

\* C30: a getSchema with a model of the same modelName but another
\* versionedName, within the TTL of an earlier call, returns a schema built
\* from a descriptor and an output type derived from the new model
C30_VersionInvalidatesLayers ==
  VersionChanged =>
    \A i \in 1..Len(models) :
      LET given == VersionedModel(models[i], LastCall.version)
      IN /\ DescriptorOf(LastCall.val, models[i]).fields = given.fields
         /\ HasKey(FieldMapOf(LastCall.val, models[i]), F_z.name)
              <=> (\E j \in 1..Len(given.fields) : given.fields[j] = F_z)

\* C30, where it holds: the schema is not the one the earlier call returned
\* for the other version
C30_VersionInvalidatesSchema ==
  VersionChanged =>
    \A i \in 1..(Len(cacheOut) - 1) :
      (cacheOut[i].op = "getSchema" /\ cacheOut[i].ok
         /\ cacheOut[i].version # LastCall.version) => cacheOut[i].val # LastCall.val

\* a getSchema alone derives the descriptor and the type from the model it is
\* given
C30_FirstCallFresh ==
  (Len(cacheOut) = 1 /\ LastCall.op = "getSchema" /\ LastCall.ok) =>
    \A i \in 1..Len(models) :
      LET given == VersionedModel(models[i], LastCall.version)
      IN /\ DescriptorOf(LastCall.val, models[i]).fields = given.fields
         /\ HasKey(FieldMapOf(LastCall.val, models[i]), F_z.name)
              <=> LastCall.version # <<>>

\* the second version was given first, and the first one after it
C30_VersionTakenBack ==
  VersionChanged /\ LastCall.version = <<>>

====
